---- MODULE Spec2Model ----
(***************************************************************************)
(* Verification model of the bchain-demo consensus engine: the block-index *)
(* tree (block_index.py), the UTXO set (utxo.py), the chain state          *)
(* (chainstate.py), the block and transaction validators                   *)
(* (block_validator.py, tx_validator.py) and the block-receiving paths of  *)
(* the node (main.py, ibd.py).                                             *)
(***************************************************************************)
EXTENDS Integers, Sequences, FiniteSets, TLC

(***************************************************************************)
(* Bounds of the model.                                                    *)
(***************************************************************************)
\* Width in bits of a block hash and of a target (256 in the source; the
\* model narrows it so that 2^HashBits is an integer TLC can hold).
HashBits == 16
\* Largest number of CBlockIndex objects created in one run.
MaxNodes == 6
\* Largest number of blocks buffered in IBDState.pending_blocks.
MaxPending == 3
\* the number of blocks the threads put into the index
MaxUpdates == 3

(***************************************************************************)
(* Python values.                                                          *)
(***************************************************************************)
\* None, where the other values are indices (>= 1) into the node list.
None == 0
\* bytes(32)
NullHash == "00"
\* 0xffffffff read as a signed 32-bit index
NullN == -1

COutPoint(hash, n) == [hash |-> hash, n |-> n]

\* COutPoint.is_null
is_null(prevout) == prevout.hash = NullHash /\ prevout.n = NullN

\* A script is kept as its kind, the key it commits to and its byte length.
CScript(kind, key, size) == [kind |-> kind, key |-> key, size |-> size]

CTxIn(prevout, scriptSig) == [prevout |-> prevout, scriptSig |-> scriptSig]

CTxOut(nValue, scriptPubKey) == [nValue |-> nValue, scriptPubKey |-> scriptPubKey]

\* hash stands for get_hash(), the double SHA-256 of the serialization.
CTransaction(hash, vin, vout) ==
    [hash |-> hash, nVersion |-> 1, vin |-> vin, vout |-> vout]

\* is_coinbase without the test of the number of inputs
is_coinbase_by_first_input(tx) ==
    IF Len(tx.vin) < 1 THEN FALSE ELSE is_null(tx.vin[1].prevout)

\* CTransaction.is_coinbase
is_coinbase(tx) ==
    IF Len(tx.vin) # 1 THEN FALSE ELSE is_null(tx.vin[1].prevout)

\* script.is_op_return
is_op_return(scriptPubKey) == scriptPubKey.kind = "op_return"

UTXO(prevout, tx_out, height, coinbase) ==
    [prevout |-> prevout, tx_out |-> tx_out, height |-> height, coinbase |-> coinbase]

\* dict helpers: d[k] = v and del d[k]
Put(d, k, v) == [x \in DOMAIN d \cup {k} |-> IF x = k THEN v ELSE d[x]]
Del(d, k) == [x \in DOMAIN d \ {k} |-> d[x]]
EmptyDict == [x \in {} |-> 0]

RECURSIVE Flatten(_)
Flatten(ss) == IF ss = <<>> THEN <<>> ELSE Head(ss) \o Flatten(Tail(ss))

(***************************************************************************)
(* bignum.py, block_index.py: targets and work.                            *)
(***************************************************************************)
\* set_compact: nBits -> target
set_compact(n_compact) ==
    LET n_size == n_compact \div 2^24
        coefficient == n_compact % 2^23
        target == IF n_size <= 3
                  THEN coefficient \div 2^(8 * (3 - n_size))
                  ELSE coefficient * 2^(8 * (n_size - 3))
    IN  target % 2^HashBits

calculate_work(target) == 2^HashBits \div (target + 1)

(***************************************************************************)
(* block.py: merkle root.  hash256(a + b) is kept as the bracketed         *)
(* concatenation of a and b, which is injective on the trees built here.   *)
(***************************************************************************)
hash256pair(a, b) == <<"(">> \o a \o b \o <<")">>

RECURSIVE PairUp(_)
PairUp(hashes) ==
    IF Len(hashes) < 2 THEN <<>>
    ELSE <<hash256pair(hashes[1], hashes[2])>> \o PairUp(SubSeq(hashes, 3, Len(hashes)))

RECURSIVE compute_merkle_root(_)
compute_merkle_root(hashes) ==
    IF hashes = <<>> THEN <<NullHash>>
    ELSE IF Len(hashes) = 1 THEN hashes[1]
    ELSE LET padded == IF Len(hashes) % 2 = 1
                       THEN Append(hashes, hashes[Len(hashes)])
                       ELSE hashes
         IN  compute_merkle_root(PairUp(padded))

build_merkle_root(vtx) ==
    compute_merkle_root([i \in 1..Len(vtx) |-> <<vtx[i].hash>>])

\* hash stands for get_hash() of the 80-byte header, hashInt for
\* int.from_bytes(hash, 'big').
CBlock(hash, hashInt, hashPrevBlock, nTime, nBits, vtx) ==
    [hash |-> hash, hashInt |-> hashInt, nVersion |-> 1,
     hashPrevBlock |-> hashPrevBlock, hashMerkleRoot |-> build_merkle_root(vtx),
     nTime |-> nTime, nBits |-> nBits, vtx |-> vtx]

(***************************************************************************)
(* block_index.py: CBlockIndex and CChain.  A chain is the record          *)
(* [nodes, genesis, tip, block_map]; nodes is the list of every            *)
(* CBlockIndex created, and pprev, pnext, children, genesis, tip and the   *)
(* values of block_map are positions in it.                                *)
(***************************************************************************)
\* CBlockIndex.__init__, without the append to parent.children
CBlockIndex(nodes, block, parent) ==
    [header |-> block, hash |-> block.hash, children |-> <<>>,
     pprev |-> parent, pnext |-> None,
     height |-> IF parent # None THEN nodes[parent].height + 1 ELSE 0,
     chain_work |-> IF parent # None
                    THEN nodes[parent].chain_work
                         + calculate_work(set_compact(block.nBits))
                    ELSE 0]

RECURSIVE WalkBack(_, _, _)
\* n steps of x = x.pprev
WalkBack(nodes, x, n) == IF n = 0 THEN x ELSE WalkBack(nodes, nodes[x].pprev, n - 1)

RECURSIVE Lockstep(_, _, _)
Lockstep(nodes, a, b) ==
    IF a = b THEN a ELSE Lockstep(nodes, nodes[a].pprev, nodes[b].pprev)

\* CChain._find_fork_point
find_fork_point(nodes, block_a, block_b) ==
    LET ha == nodes[block_a].height
        hb == nodes[block_b].height
        a == IF ha > hb THEN WalkBack(nodes, block_a, ha - hb) ELSE block_a
        b == IF hb > ha THEN WalkBack(nodes, block_b, hb - ha) ELSE block_b
    IN  Lockstep(nodes, a, b)

\* the old segment is left as it is
invalidate_chain_segment_skipped(nodes, from_block, to_block) == nodes

RECURSIVE invalidate_chain_segment(_, _, _)
\* CChain._invalidate_chain_segment
invalidate_chain_segment(nodes, from_block, to_block) ==
    IF from_block = to_block THEN nodes
    ELSE invalidate_chain_segment([nodes EXCEPT ![from_block].pnext = None],
                                  nodes[from_block].pprev, to_block)

RECURSIVE PathTo(_, _, _)
\* the list fork_block -> ... -> new_tip
PathTo(nodes, fork_block, current) ==
    IF current = fork_block THEN <<fork_block>>
    ELSE Append(PathTo(nodes, fork_block, nodes[current].pprev), current)

\* CChain._rebuild_chain_path
rebuild_chain_path(nodes, fork_block, new_tip) ==
    LET path == PathTo(nodes, fork_block, new_tip)
    IN  [i \in 1..Len(nodes) |->
            IF \E k \in 1..Len(path) : path[k] = i
            THEN LET k == CHOOSE k \in 1..Len(path) : path[k] = i
                 IN  [nodes[i] EXCEPT !.pnext =
                         IF k < Len(path) THEN path[k + 1] ELSE None]
            ELSE nodes[i]]

\* CChain._update_main_chain
update_main_chain(chain, new_tip) ==
    LET old_tip == chain.tip
        fork_block == find_fork_point(chain.nodes, old_tip, new_tip)
        cleared == invalidate_chain_segment(chain.nodes, old_tip, fork_block)
    IN  [chain EXCEPT !.tip = new_tip,
                      !.nodes = rebuild_chain_path(cleared, fork_block, new_tip)]

\* the comparison a plausible slip would make: the longest branch wins
has_more_work_by_height(node, tip_node) == node.height > tip_node.height

\* add_block: new_index.chain_work > self.tip.chain_work
\* add_block with >= in the place of >: the last seen of two equal branches wins
has_more_work_or_equal(node, tip_node) == node.chain_work >= tip_node.chain_work

has_more_work(node, tip_node) == node.chain_work > tip_node.chain_work

\* add_block without the check of self.genesis: a block with the null hash as
\* its parent replaces the genesis
raises_for_orphan_only(chain, block) == block.hashPrevBlock # NullHash

\* add_block, the two raise statements for a block whose parent is not in
\* block_map
raises_without_parent(chain, block) ==
    IF block.hashPrevBlock # NullHash THEN TRUE ELSE chain.genesis # None

\* CChain.add_block.  The result is the chain after the call, the new index
\* and the exception raised ("none" or "ValueError").
add_block(chain, block) ==
    LET parent == IF block.hashPrevBlock \in DOMAIN chain.block_map
                  THEN chain.block_map[block.hashPrevBlock] ELSE None
    IN  IF parent = None
        THEN IF raises_without_parent(chain, block)
             THEN [chain |-> chain, new_index |-> None, err |-> "ValueError"]
             ELSE LET g == Len(chain.nodes) + 1
                  IN  [chain |-> [nodes |-> Append(chain.nodes,
                                                   CBlockIndex(chain.nodes, block, None)),
                                  genesis |-> g, tip |-> g,
                                  block_map |-> Put(chain.block_map, block.hash, g)],
                       new_index |-> g, err |-> "none"]
        ELSE LET new_index == Len(chain.nodes) + 1
                 node == CBlockIndex(chain.nodes, block, parent)
                 linked == Append([chain.nodes EXCEPT ![parent].children =
                                       Append(@, new_index)], node)
                 added == [chain EXCEPT !.nodes = linked,
                                        !.block_map = Put(@, block.hash, new_index)]
             IN  [chain |-> IF has_more_work(node, chain.nodes[chain.tip])
                            THEN update_main_chain(added, new_index)
                            ELSE added,
                  new_index |-> new_index, err |-> "none"]

(***************************************************************************)
(* utxo.py: UTXOSet.  A set is the record [utxos, spent_utxos, err]; err   *)
(* is the exception that stopped the operation, "none" if it completed.    *)
(***************************************************************************)
EmptyUTXOSet == [utxos |-> EmptyDict, spent_utxos |-> EmptyDict, err |-> "none"]

\* UTXOSet.is_unspent
is_unspent(utxos, prevout) == prevout \in DOMAIN utxos

\* UTXOSet.spend
spend(set, prevout) ==
    IF prevout \notin DOMAIN set.utxos
    THEN [set EXCEPT !.err = "ValueError"]
    ELSE [set EXCEPT !.spent_utxos = Put(@, prevout, set.utxos[prevout]),
                     !.utxos = Del(@, prevout)]

\* del self.utxos[prevout]
del_output(set, prevout) ==
    IF prevout \notin DOMAIN set.utxos
    THEN [set EXCEPT !.err = "KeyError"]
    ELSE [set EXCEPT !.utxos = Del(@, prevout)]

\* self.utxos[txin.prevout] = self.spent_utxos[txin.prevout]
restore_input(set, prevout) ==
    IF prevout \notin DOMAIN set.spent_utxos
    THEN [set EXCEPT !.err = "KeyError"]
    ELSE [set EXCEPT !.utxos = Put(@, prevout, set.spent_utxos[prevout])]

\* isinstance(obj, UTXO): the object has the attributes UTXO.__init__ sets
isinstance_UTXO(obj) == DOMAIN obj = {"prevout", "tx_out", "height", "coinbase"}

\* UTXOSet.add
add(set, utxo) ==
    IF ~isinstance_UTXO(utxo) THEN [set EXCEPT !.err = "TypeError"]
    ELSE [set EXCEPT !.utxos = Put(@, utxo.prevout, utxo)]

\* self.utxos[prevout] = UTXO(...)
add_output(set, utxo) == [set EXCEPT !.utxos = Put(@, utxo.prevout, utxo)]

Step(set, op) ==
    CASE op.op = "spend" -> spend(set, op.prevout)
      [] op.op = "del" -> del_output(set, op.prevout)
      [] op.op = "restore" -> restore_input(set, op.prevout)
      [] op.op = "add" -> add_output(set, op.utxo)

RECURSIVE Run(_, _)
\* the statements of ops in order, up to the first one that raises
Run(set, ops) ==
    IF ops = <<>> \/ set.err # "none" THEN set
    ELSE Run(Step(set, Head(ops)), Tail(ops))

\* first loop of update_from_block: the inputs of the non-coinbase transactions
SpendOps(block) ==
    Flatten([t \in 1..Len(block.vtx) |->
        IF is_coinbase(block.vtx[t]) THEN <<>>
        ELSE [i \in 1..Len(block.vtx[t].vin) |->
                 [op |-> "spend", prevout |-> block.vtx[t].vin[i].prevout]]])

\* the outputs of one transaction that update_from_block adds
AddOpsOfTx(tx, height) ==
    Flatten([i \in 1..Len(tx.vout) |->
        IF is_op_return(tx.vout[i].scriptPubKey) THEN <<>>
        ELSE <<[op |-> "add",
                utxo |-> UTXO(COutPoint(tx.hash, i - 1), tx.vout[i],
                              height, is_coinbase(tx))]>>])

\* second loop of update_from_block
AddOps(block, height) ==
    Flatten([t \in 1..Len(block.vtx) |-> AddOpsOfTx(block.vtx[t], height)])

\* UTXOSet.update_from_block
update_from_block(set, block, height) ==
    Run(set, SpendOps(block) \o AddOps(block, height))

\* first loop of disconnect_block
DelOps(block) ==
    Flatten([t \in 1..Len(block.vtx) |->
        [i \in 1..Len(block.vtx[t].vout) |->
            [op |-> "del", prevout |-> COutPoint(block.vtx[t].hash, i - 1)]]])

\* second loop of disconnect_block, over block.vtx[1:]
RestoreOps(block) ==
    Flatten([t \in 1..Len(block.vtx) |->
        IF t = 1 THEN <<>>
        ELSE [i \in 1..Len(block.vtx[t].vin) |->
                 [op |-> "restore", prevout |-> block.vtx[t].vin[i].prevout]]])

\* UTXOSet.disconnect_block
disconnect_block(set, block) == Run(set, DelOps(block) \o RestoreOps(block))

(***************************************************************************)
(* tx_validator.py and block_validator.py.  A validator returns "ok" or    *)
(* the name of the exception that ends it.                                 *)
(***************************************************************************)
\* int(time.time()) when the header is validated
CurrentTime == 1000
MAX_FUTURE_BLOCK_TIME == 7200
COINBASE_MATURITY == 100
\* 1000000 bytes
MAX_TX_SIZE == 1000000
\* 2100000000000000 satoshis, in coins
MAX_MONEY == 21000000

\* getattr: the objects are records, an attribute is a field
HasAttr(obj, name) == name \in DOMAIN obj

RECURSIVE Sum(_)
Sum(values) == IF values = <<>> THEN 0 ELSE Head(values) + Sum(Tail(values))

\* len(compact_size(n))
CompactSizeLen(n) == IF n < 253 THEN 1 ELSE IF n <= 65535 THEN 3 ELSE 5

\* len(script.serialize()): the bytes of the script, without a length prefix
ScriptLen(script) == script.size

\* len(tx.serialize())
SerializedLen(tx) ==
    4 + CompactSizeLen(Len(tx.vin))
      + Sum([i \in 1..Len(tx.vin) |-> 36 + ScriptLen(tx.vin[i].scriptSig)])
      + CompactSizeLen(Len(tx.vout))
      + Sum([i \in 1..Len(tx.vout) |-> 8 + ScriptLen(tx.vout[i].scriptPubKey)])

\* verify_script as the transaction validator sees it: the unlocking script
\* satisfies the locking script when it is made for the same key
script_verifies(scriptSig, scriptPubKey) ==
    scriptPubKey.kind = "p2pkh" /\ scriptSig.kind = "sig" /\ scriptSig.key = scriptPubKey.key

RECURSIVE CheckInputs(_, _, _, _)
\* step 3 of validate_transaction, from input i on
CheckInputs(tx, utxos, block_height, i) ==
    IF i > Len(tx.vin) THEN "ok"
    ELSE LET prevout == tx.vin[i].prevout
         IN  IF ~is_unspent(utxos, prevout) THEN "NonExistentUTXO"
             ELSE LET utxo == utxos[prevout]
                  IN  IF ~HasAttr(utxo, "is_coinbase") THEN "AttributeError"
                      ELSE IF utxo.is_coinbase /\ ~HasAttr(utxo, "block_height")
                      THEN "AttributeError"
                      ELSE IF utxo.is_coinbase
                              /\ block_height - utxo.block_height < COINBASE_MATURITY
                      THEN "ImmatureCoinbase"
                      ELSE CheckInputs(tx, utxos, block_height, i + 1)

\* tx_validator.validate_transaction
validate_transaction(tx, utxos, block_height) ==
    IF ~is_coinbase(tx) /\ tx.vin = <<>> THEN "NoInputs"
    ELSE IF \E j \in 1..Len(tx.vout) : tx.vout[j].nValue < 0 THEN "SerializationError"
    ELSE IF SerializedLen(tx) > MAX_TX_SIZE THEN "SerializationError"
    ELSE IF is_coinbase(tx)
    THEN IF ~(2 <= tx.vin[1].scriptSig.size /\ tx.vin[1].scriptSig.size <= 100)
         THEN "BadCoinbaseScriptSig" ELSE "ok"
    ELSE IF CheckInputs(tx, utxos, block_height, 1) # "ok"
    THEN CheckInputs(tx, utxos, block_height, 1)
    ELSE IF \E j \in 1..Len(tx.vout) : tx.vout[j].nValue > MAX_MONEY
    THEN "BadOutputValue"
    ELSE IF Sum([i \in 1..Len(tx.vin) |-> utxos[tx.vin[i].prevout].tx_out.nValue])
            < Sum([j \in 1..Len(tx.vout) |-> tx.vout[j].nValue])
    THEN "InsufficientInputValue"
    ELSE IF \E i \in 1..Len(tx.vin) :
               ~script_verifies(tx.vin[i].scriptSig,
                                utxos[tx.vin[i].prevout].tx_out.scriptPubKey)
    THEN "ScriptFail"
    ELSE IF ~HasAttr(tx, "nLockTime") THEN "AttributeError"
    ELSE IF tx.nLockTime # 0 /\ tx.nLockTime >= 500000000 THEN "NameError"
    ELSE IF tx.nLockTime # 0 /\ ~(tx.nLockTime < block_height) THEN "LocktimeNotMet"
    ELSE "ok"

\* block_validator.validate_block_header
validate_block_header(block, prev_block_hash) ==
    IF block.hashPrevBlock # prev_block_hash THEN "BadPrevHash"
    ELSE IF block.nTime > CurrentTime + MAX_FUTURE_BLOCK_TIME THEN "TimeTooFar"
    ELSE IF block.nVersion < 1 THEN "BadVersion"
    ELSE "ok"

\* block_validator.validate_pow
validate_pow(block) ==
    IF block.hashInt > set_compact(block.nBits) THEN "PowFailed" ELSE "ok"

\* block_validator.validate_merkle_root
validate_merkle_root(block) ==
    IF build_merkle_root(block.vtx) # block.hashMerkleRoot THEN "BadMerkleRoot" ELSE "ok"

\* the loop that stops after the coinbase, the other transactions unchecked
ValidateCoinbaseOnly(block, utxos, block_height, tx_index) ==
    IF Len(block.vtx[1].vout) = 0 \/ block.vtx[1].vout[1].nValue <= 0
    THEN "BlockValidationError" ELSE "ok"

RECURSIVE ValidateEach(_, _, _, _)
\* the loop of validate_block_transactions, from transaction tx_index on
\* (0-based as in the source)
ValidateEach(block, utxos, block_height, tx_index) ==
    IF tx_index >= Len(block.vtx) THEN "ok"
    ELSE LET tx == block.vtx[tx_index + 1]
             res == IF tx_index = 0
                    THEN IF Len(tx.vout) = 0 \/ tx.vout[1].nValue <= 0
                         THEN "BadCoinbaseOutput" ELSE "ok"
                    ELSE validate_transaction(tx, utxos, block_height)
         IN  IF res # "ok" THEN "BlockValidationError"
             ELSE ValidateEach(block, utxos, block_height, tx_index + 1)

\* block_validator.validate_block_transactions
validate_block_transactions(block, utxos, block_height) ==
    IF Len(block.vtx) = 0 THEN "NoTransactions"
    ELSE IF ~is_coinbase(block.vtx[1]) THEN "NoCoinbase"
    ELSE IF ~(2 <= block.vtx[1].vin[1].scriptSig.size
              /\ block.vtx[1].vin[1].scriptSig.size <= 100)
    THEN "BadCoinbaseScriptSig"
    ELSE ValidateEach(block, utxos, block_height, 0)

\* block_validator.validate_block
validate_block(block, utxos, prev_block_hash, block_height) ==
    IF validate_block_header(block, prev_block_hash) # "ok"
    THEN validate_block_header(block, prev_block_hash)
    ELSE IF validate_pow(block) # "ok" THEN validate_pow(block)
    ELSE IF validate_block_transactions(block, utxos, block_height) # "ok"
    THEN validate_block_transactions(block, utxos, block_height)
    ELSE validate_merkle_root(block)

(***************************************************************************)
(* chainstate.py: ChainState.                                              *)
(***************************************************************************)
RECURSIVE DisconnectBack(_, _, _, _)
\* _handle_chain_reorg, step 2: disconnect from the tip down to the fork
DisconnectBack(nodes, set, current, fork_block) ==
    IF current = fork_block \/ set.err # "none" THEN set
    ELSE DisconnectBack(nodes, disconnect_block(set, nodes[current].header),
                        nodes[current].pprev, fork_block)

RECURSIVE ConnectAll(_, _, _)
\* _handle_chain_reorg, step 3: connect blocks_to_connect in order
ConnectAll(nodes, set, blocks_to_connect) ==
    IF blocks_to_connect = <<>> \/ set.err # "none" THEN set
    ELSE LET block == nodes[Head(blocks_to_connect)]
         IN  ConnectAll(nodes, update_from_block(set, block.header, block.height),
                        Tail(blocks_to_connect))

\* ChainState._handle_chain_reorg
handle_chain_reorg(chain, set, new_tip) ==
    LET fork_block == find_fork_point(chain.nodes, chain.tip, new_tip)
        disconnected == DisconnectBack(chain.nodes, set, chain.tip, fork_block)
    IN  ConnectAll(chain.nodes, disconnected,
                   Tail(PathTo(chain.nodes, fork_block, new_tip)))

RECURSIVE ClearMined(_, _)
\* the mempool loop of update, over block.vtx[1:]
ClearMined(pool, txs) ==
    IF txs = <<>> THEN pool
    ELSE ClearMined(IF Head(txs).hash \in DOMAIN pool THEN Del(pool, Head(txs).hash)
                    ELSE pool, Tail(txs))

\* bytes.hex(): the text of a hash in hexadecimal digits, a str where the
\* hash is bytes
hex(hash) == "hex:" \o hash

RECURSIVE StepBack(_, _, _)
\* _build_locator, the inner loop: current = current.pprev, steps times or
\* until there is no current
StepBack(ns, current, steps) ==
    IF current = None THEN None
    ELSE IF steps = 0 THEN current
    ELSE StepBack(ns, ns[current].pprev, steps - 1)

RECURSIVE LocatorFrom(_, _, _)
\* _build_locator, the while loop from current with the given step
LocatorFrom(ns, current, step) ==
    IF current = None THEN <<>>
    ELSE <<ns[current].hash>>
         \o LocatorFrom(ns, StepBack(ns, current, IF step < 10 THEN step ELSE 10),
                        step * 2)

\* IBDState._build_locator
build_locator(chain) ==
    IF chain.tip = None THEN <<NullHash>> ELSE LocatorFrom(chain.nodes, chain.tip, 1)

\* the GETBLOCKS message of _request_next_block, and the socket it goes to
GetBlocks(locator, sock) ==
    [type |-> "GETBLOCKS", locator |-> [i \in 1..Len(locator) |-> hex(locator[i])],
     hash_stop |-> hex(NullHash), sock |-> sock]

\* IBDState.STALE_THRESHOLD, in seconds
STALE_THRESHOLD == 30

\* IBDState._request_next_block
request_next_block(st) ==
    [st EXCEPT !.sent = Append(@, GetBlocks(build_locator(st.chain), st.ibd.active_peer)),
               !.ibd.last_request_time = st.now]

\* IBDState.start_ibd
start_ibd(st, sock) ==
    IF ~st.ibd.active
    THEN request_next_block([st EXCEPT !.ibd.active = TRUE, !.ibd.active_peer = sock])
    ELSE st

\* BlockchainNode.on_chain_update, the callback the node registers: IBD ends
\* once the tip has reached IBDState.target_height, which stays 0
on_chain_update(st) ==
    LET marked == [st EXCEPT !.seen_messages =
                      @ \cup {st.chain.nodes[st.chain.tip].hash}]
        retried == IF st.now - st.ibd.last_request_time > STALE_THRESHOLD
                   THEN request_next_block(marked) ELSE marked
    IN  IF st.ibd.active
        THEN IF st.chain.nodes[st.chain.tip].height >= 0
             THEN [retried EXCEPT !.ibd.active = FALSE]
             ELSE retried
        ELSE marked

\* ChainState._notify
notify(st) == on_chain_update(st)

\* ChainState.update on the state st = [chain, utxos, spent_utxos, mempool, ibd,
\* seen_messages].
\* result is "ok" when the block was applied and the listeners were notified,
\* "rejected" when add_block raised, "ValueError" when a later step raised
\* ValueError (caught and printed by update) and "KeyError" when a later step
\* raised KeyError (which leaves update).
update(st, block) ==
    LET r == add_block(st.chain, block)
        set == [utxos |-> st.utxos, spent_utxos |-> st.spent_utxos, err |-> "none"]
        u == IF r.chain.tip = r.new_index
             THEN update_from_block(set, block, r.chain.nodes[r.new_index].height)
             ELSE handle_chain_reorg(r.chain, set, r.new_index)
    IN  IF r.err # "none" THEN [st |-> st, result |-> "rejected"]
        ELSE IF u.err # "none"
        THEN [st |-> [st EXCEPT !.chain = r.chain, !.utxos = u.utxos,
                                !.spent_utxos = u.spent_utxos],
              result |-> u.err]
        ELSE [st |-> notify([st EXCEPT !.chain = r.chain, !.utxos = u.utxos,
                                       !.spent_utxos = u.spent_utxos,
                                       !.mempool = ClearMined(@, Tail(block.vtx))]),
              result |-> "ok"]

(***************************************************************************)
(* ibd.py and main.py: the block-receiving paths of the node.              *)
(***************************************************************************)
RECURSIVE find_block_at_height(_, _, _)
\* IBDState._find_block_at_height over the pending blocks in dict order;
\* the result is a position in pending, None when there is no such block
find_block_at_height(pending, chain, height) ==
    IF pending = <<>> THEN None
    ELSE LET block == Head(pending)
             known == block.hashPrevBlock \in DOMAIN chain.block_map
             rest == find_block_at_height(Tail(pending), chain, height)
         IN  IF known /\ chain.nodes[chain.block_map[block.hashPrevBlock]].height + 1 = height
             THEN 1
             ELSE IF height = 0 /\ block.hashPrevBlock = NullHash THEN 1
             ELSE IF rest = None THEN None ELSE rest + 1

\* del d[k] on a dict kept as the list of its values
Without(seq, k) == [i \in 1..(Len(seq) - 1) |-> IF i < k THEN seq[i] ELSE seq[i + 1]]

RECURSIVE ConnectPending(_, _)
\* the loop of IBDState._try_connect_blocks
ConnectPending(st, next_height) ==
    LET k == find_block_at_height(st.ibd.pending_blocks, st.chain, next_height)
    IN  IF k = None THEN st
        ELSE LET r == update(st, st.ibd.pending_blocks[k])
             IN  IF r.result = "KeyError" THEN r.st
                 ELSE ConnectPending(
                          [r.st EXCEPT !.ibd.pending_blocks = Without(@, k)],
                          next_height + 1)

\* IBDState._try_connect_blocks
try_connect_blocks(st) ==
    ConnectPending(st, IF st.chain.tip # None
                       THEN st.chain.nodes[st.chain.tip].height + 1 ELSE 0)

\* self.pending_blocks[block_hash] = block
StorePending(pending, block) ==
    IF \E i \in 1..Len(pending) : pending[i].hash = block.hash
    THEN [i \in 1..Len(pending) |-> IF pending[i].hash = block.hash THEN block ELSE pending[i]]
    ELSE Append(pending, block)

\* IBDState.process_block
process_block(st, block) ==
    try_connect_blocks([st EXCEPT !.ibd.pending_blocks = StorePending(@, block)])

\* CBlock.deserialize(bytes.fromhex(message['block']))
deserialize(message) == message.block

\* BlockHandler.__call__
BlockHandler(st, message) ==
    LET block == deserialize(message)
        chain == st.chain
        block_height == IF chain.tip # None THEN chain.nodes[chain.tip].height + 1 ELSE 0
        prev_hash == IF chain.tip # None THEN chain.nodes[chain.tip].hash ELSE NullHash
    IN  IF validate_block(block, st.utxos, prev_hash, block_height) = "ok"
           /\ hex(block.hash) \notin DOMAIN chain.block_map
        THEN update(st, block).st
        ELSE st

\* whether BlockHandler.__call__ finds the block of the message valid
BlockHandlerAccepts(st, message) ==
    LET chain == st.chain
    IN  /\ validate_block(deserialize(message), st.utxos,
                          IF chain.tip # None THEN chain.nodes[chain.tip].hash ELSE NullHash,
                          IF chain.tip # None THEN chain.nodes[chain.tip].height + 1 ELSE 0)
           = "ok"
        /\ hex(deserialize(message).hash) \notin DOMAIN chain.block_map

\* IBDBlockHandler.__call__
IBDBlockHandler(st, message, sock) ==
    IF st.ibd.active /\ sock = st.ibd.active_peer
    THEN process_block(st, deserialize(message))
    ELSE BlockHandler(st, message)

\* CTransaction.deserialize(bytes.fromhex(message['tx']))
deserialize_tx(message) == message.tx

\* the attributes of a BlockchainNode object
BlockchainNode ==
    [a \in {"node_id", "seen_messages", "message_dedup_lock", "router",
             "chain_state", "ibd"} |-> TRUE]

\* TxHandler.__call__: the handler reads self.node.utxo_set, which a
\* BlockchainNode does not have; the AttributeError is caught and printed
TxHandler(st, message) ==
    LET tx == deserialize_tx(message)
    IN  IF ~HasAttr(BlockchainNode, "utxo_set") THEN st
        ELSE IF st.chain.tip = None THEN st
        ELSE IF validate_transaction(tx, st.utxos,
                                     st.chain.nodes[st.chain.tip].height) = "ok"
        THEN [st EXCEPT !.mempool = Put(@, tx.hash, tx)]
        ELSE st

\* the 32-byte values the messages name
Hashes == {NullHash, "G", "A", "B", "C", "D", "Z"}

\* bytes.fromhex, on the hex form of a hash
fromhex(s) == CHOOSE h \in Hashes : hex(h) = s

\* PeerNode.send_message: the message is put on the outbox, from which it is
\* sent to every peer
send_message(st, message) ==
    [st EXCEPT !.sent = Append(@, [message |-> message, sock |-> "outbox"])]

RECURSIVE find_common_block(_, _)
\* GetBlocksHandler._find_common_block
find_common_block(chain, locator) ==
    IF locator = <<>> THEN None
    ELSE IF Head(locator) \in DOMAIN chain.block_map
    THEN chain.block_map[Head(locator)]
    ELSE find_common_block(chain, Tail(locator))

RECURSIVE InventoryFrom(_, _, _, _)
\* GetBlocksHandler.__call__, the while loop from current with max_blocks left
InventoryFrom(ns, current, hash_stop, max_blocks) ==
    IF current = None THEN <<>>
    ELSE IF max_blocks <= 0 THEN <<>>
    ELSE IF ns[current].hash = hash_stop THEN <<>>
    ELSE <<<<"MSG_BLOCK", hex(ns[current].hash)>>>>
         \o InventoryFrom(ns, ns[current].pnext, hash_stop, max_blocks - 1)

\* GetBlocksHandler.__call__, max_blocks
MAX_BLOCKS == 500

\* the first block of a reply that starts with the common block itself
first_from(chain, common_block) ==
    IF common_block # None THEN common_block ELSE chain.genesis

\* the first block of the reply: the one after the common block
first_after(chain, common_block) ==
    IF common_block # None THEN chain.nodes[common_block].pnext ELSE chain.genesis

\* GetBlocksHandler.__call__
GetBlocksHandler(st, message) ==
    LET locator == [i \in 1..Len(message.locator) |-> fromhex(message.locator[i])]
        hash_stop == fromhex(message.hash_stop)
        common_block == find_common_block(st.chain, locator)
    IN  send_message(st, [type |-> "INV",
                          inventory |-> InventoryFrom(st.chain.nodes,
                                                      first_after(st.chain, common_block),
                                                      hash_stop, MAX_BLOCKS)])

\* message.get(key): the value None is written "None" where it stands among
\* strings
get(message, key) == IF key \in DOMAIN message THEN message[key] ELSE "None"

\* the handler route_message finds for the message
handler_for(st, message, sock) ==
    IF message.type = "TX" THEN "TxHandler"
    ELSE IF message.type = "GETBLOCKS" THEN "GetBlocksHandler"
    ELSE IF st.ibd.active /\ sock = st.ibd.active_peer THEN "IBD"
    ELSE "BlockHandler"

\* handler(message, sender_sock) for the handlers the node registers
dispatch(st, message, sock) ==
    IF message.type = "TX" THEN TxHandler(st, message)
    ELSE IF message.type = "GETBLOCKS" THEN GetBlocksHandler(st, message)
    ELSE IBDBlockHandler(st, message, sock)

\* route_message without the test of seen_messages
route_message_unchecked(st, message, sock) ==
    [st |-> dispatch([st EXCEPT !.seen_messages = @ \cup {get(message, "id")}],
                     message, sock),
     handler |-> handler_for(st, message, sock)]

\* MessageRouter.route_message: a message whose id is in seen_messages is
\* dropped, any other is marked as seen and handed to its handler
route_message(st, message, sock) ==
    IF get(message, "id") \in st.seen_messages THEN [st |-> st, handler |-> "none"]
    ELSE [st |-> dispatch([st EXCEPT !.seen_messages = @ \cup {get(message, "id")}],
                          message, sock),
          handler |-> handler_for(st, message, sock)]

\* IBDState.should_start_ibd, with target_height = 0
should_start_ibd(st) ==
    IF st.chain.tip = None THEN TRUE ELSE st.chain.nodes[st.chain.tip].height < 0

\* send_raw_transaction without the call of validate_transaction
send_raw_transaction_unvalidated(st, tx) ==
    IF st.chain.tip = None THEN st
    ELSE [st EXCEPT !.mempool = Put(@, tx.hash, tx)]

\* RPC send_raw_transaction
send_raw_transaction(st, tx) ==
    IF st.chain.tip = None THEN st
    ELSE IF validate_transaction(tx, st.utxos, st.chain.nodes[st.chain.tip].height) = "ok"
    THEN [st EXCEPT !.mempool = Put(@, tx.hash, tx)]
    ELSE st

(***************************************************************************)
(* The blocks and transactions offered to the node.                        *)
(***************************************************************************)
\* 50 coins; values are counted in coins of 10^8 satoshis
BLOCK_REWARD == 50
\* nBits whose target is 0x7fff
EasyBits == 50364415
\* nBits whose target is 0x1fff, four times the work of EasyBits
HardBits == 50339839

KeyScript(k) == CScript("p2pkh", k, 25)
SigScript(k) == CScript("sig", k, 107)
\* ScriptBuilder._push_data of the 4-byte height
HeightScript == CScript("data", "", 5)
OpReturnScript == CScript("op_return", "", 10)

Coinbase(hash) ==
    CTransaction(hash, <<CTxIn(COutPoint(NullHash, NullN), HeightScript)>>,
                 <<CTxOut(BLOCK_REWARD, KeyScript("miner"))>>)

\* a coinbase with a second, unspendable output
CoinbaseWithData(hash) ==
    CTransaction(hash, <<CTxIn(COutPoint(NullHash, NullN), HeightScript)>>,
                 <<CTxOut(BLOCK_REWARD, KeyScript("miner")), CTxOut(0, OpReturnScript)>>)

Spend(hash, prevout, value) ==
    CTransaction(hash, <<CTxIn(prevout, SigScript("miner"))>>,
                 <<CTxOut(value, KeyScript("alice"))>>)

BlockG == CBlock("G", 1, NullHash, 100, EasyBits, <<Coinbase("cbG")>>)
BlockA == CBlock("A", 2, "G", 101, EasyBits, <<Coinbase("cbA")>>)
BlockB == CBlock("B", 3, "A", 102, EasyBits,
                 <<Coinbase("cbB"), Spend("t1", COutPoint("cbG", 0), 30)>>)
BlockC == CBlock("C", 4, "G", 101, EasyBits, <<Coinbase("cbC")>>)
BlockD == CBlock("D", 5, "C", 102, EasyBits,
                 <<Coinbase("cbD"), Spend("t2", COutPoint("cbG", 0), 20)>>)
\* a block with a second transaction of coinbase form
BlockE == CBlock("E", 6, "D", 103, EasyBits, <<Coinbase("cbE"), Coinbase("cbX")>>)
\* a block whose hash is above its target and whose second transaction
\* spends an output that never existed
BlockF == CBlock("F", 40000, "A", 102, EasyBits,
                 <<Coinbase("cbF"), Spend("t3", COutPoint("nowhere", 0), 10)>>)
\* a heavier block on the genesis, with an unspendable coinbase output
BlockH == CBlock("H", 8, "G", 101, HardBits, <<CoinbaseWithData("cbH")>>)

Blocks == {BlockG, BlockA, BlockB, BlockC, BlockD, BlockE, BlockF, BlockH}

(***************************************************************************)
(* State.                                                                  *)
(***************************************************************************)
\* the sockets of the peers
Peers == {"p1", "p2"}

\* the transactions submitted over RPC
OfferedTxs == {Coinbase("cbX"), Spend("t1", COutPoint("cbG", 0), 30)}

\* no validator has been called
NoCheck == [kind |-> "none"]

VARIABLES
    nodes,           \* every CBlockIndex created, in creation order
    genesis,         \* CChain.genesis
    tip,             \* CChain.tip
    block_map,       \* CChain.block_map
    utxos,           \* UTXOSet.utxos
    spent_utxos,     \* UTXOSet.spent_utxos
    mempool,         \* ChainState._mempool
    ibd_active,      \* IBDState.active
    active_peer,     \* IBDState.active_peer
    pending_blocks,  \* IBDState.pending_blocks, in dict order
    origin,          \* for every node, the path that inserted its block
    last,            \* the last call made on the node and how it ended
    checked,         \* the last call of a validator: its arguments and result
    seen_messages,   \* PeerNode.seen_messages
    state_lock,      \* ChainState._state_lock: the thread that holds it, or "free"
    threads,         \* for every thread, where it is in the call it makes
    subscribers,     \* for every registered callback, the blocks it was called with
    committed,       \* the updates in the order they left the state lock
    at_tip,          \* for every node, the UTXO set and mempool when it became the tip
    admitted,        \* the transactions that were put into the mempool
    now,             \* time.time(), in seconds since the node was built
    last_request_time, \* IBDState.last_request_time
    sent,            \* the messages _send_direct_message has written, in order
    connection_lock, \* PeerNode.connection_lock: the thread that holds it, or "free"
    inbound_connections,  \* the sockets that are keys of inbound_connections
    outbound_connections  \* the sockets that are keys of outbound_connections

vars == <<nodes, genesis, tip, block_map, utxos, spent_utxos, mempool,
          ibd_active, active_peer, pending_blocks, origin, last, checked,
          seen_messages, state_lock, threads, subscribers, committed,
          at_tip, admitted, now, last_request_time, sent,
          connection_lock, inbound_connections, outbound_connections>>

\* the variables of the threads, and the records kept of the past
thread_vars == <<state_lock, threads, subscribers, committed>>
record_vars == <<at_tip, admitted>>
\* the clock, the time of the last GETBLOCKS and the messages sent
clock_vars == <<now, last_request_time, sent>>
\* the lock and the tables of the connections
conn_vars == <<connection_lock, inbound_connections, outbound_connections>>

Chain == [nodes |-> nodes, genesis |-> genesis, tip |-> tip, block_map |-> block_map]

State == [chain |-> Chain, utxos |-> utxos, spent_utxos |-> spent_utxos,
          mempool |-> mempool,
          ibd |-> [active |-> ibd_active, active_peer |-> active_peer,
                   pending_blocks |-> pending_blocks,
                   last_request_time |-> last_request_time],
          seen_messages |-> seen_messages, now |-> now, sent |-> sent]

\* the variables take the fields of st; the nodes created by the step are
\* recorded as inserted by path
Becomes(st, path) ==
    /\ nodes' = st.chain.nodes
    /\ genesis' = st.chain.genesis
    /\ tip' = st.chain.tip
    /\ block_map' = st.chain.block_map
    /\ utxos' = st.utxos
    /\ spent_utxos' = st.spent_utxos
    /\ mempool' = st.mempool
    /\ ibd_active' = st.ibd.active
    /\ active_peer' = st.ibd.active_peer
    /\ pending_blocks' = st.ibd.pending_blocks
    /\ seen_messages' = st.seen_messages
    /\ last_request_time' = st.ibd.last_request_time
    /\ sent' = st.sent
    /\ now' = now
    /\ origin' = [i \in 1..Len(st.chain.nodes) |->
                     IF i <= Len(origin) THEN origin[i] ELSE path]
    /\ UNCHANGED <<checked, conn_vars>>

\* no thread is modelled: the calls are made one after the other
NoThreads ==
    /\ state_lock = "free"
    /\ threads = <<>>
    /\ subscribers = <<>>
    /\ committed = <<>>

\* no record of the past is kept
NoRecords ==
    /\ at_tip = <<>>
    /\ admitted = {}

\* the clock starts when the node is built; IBDState.__init__ sets
\* last_request_time to 0 and nothing was sent
ClockStarts ==
    /\ now = 0
    /\ last_request_time = 0
    /\ sent = <<>>

\* PeerNode.__init__: the lock is free and the tables are empty
NoConnections ==
    /\ connection_lock = "free"
    /\ inbound_connections = {}
    /\ outbound_connections = {}

\* ChainState.__init__, CChain.__init__, UTXOSet.__init__, IBDState.__init__
Init ==
    /\ nodes = <<>>
    /\ genesis = None
    /\ tip = None
    /\ block_map = EmptyDict
    /\ utxos = EmptyDict
    /\ spent_utxos = EmptyDict
    /\ mempool = EmptyDict
    /\ ibd_active = FALSE
    /\ active_peer = "none"
    /\ pending_blocks = <<>>
    /\ origin = <<>>
    /\ last = [op |-> "init", result |-> "ok"]
    /\ checked = NoCheck
    /\ seen_messages = {}
    /\ NoThreads
    /\ NoRecords
    /\ ClockStarts
    /\ NoConnections

\* ChainState.update(block) on the variables
UpdateCall(block) ==
    /\ Len(nodes) < MaxNodes
    /\ LET r == update(State, block)
       IN  /\ Becomes(r.st, "update")
           /\ last' = [op |-> "update", result |-> r.result]

\* a direct call of ChainState.update(block)
Update(block) ==
    /\ UpdateCall(block)
    /\ UNCHANGED <<thread_vars, record_vars>>

\* the RPC send_raw_transaction(tx) on the variables
SendRawTransactionCall(tx) ==
    /\ Becomes(send_raw_transaction(State, tx), "none")
    /\ last' = [op |-> "send_raw_transaction",
                result |-> IF tx.hash \in DOMAIN send_raw_transaction(State, tx).mempool
                           THEN "ok" ELSE "invalid"]

\* a transaction submitted through the RPC send_raw_transaction
SendRawTransaction(tx) ==
    /\ SendRawTransactionCall(tx)
    /\ UNCHANGED <<thread_vars, record_vars>>

\* The chain state under any sequence of update calls and RPC submissions.
Next ==
    \/ \E block \in Blocks : Update(block)
    \/ \E tx \in OfferedTxs : SendRawTransaction(tx)

Spec == Init /\ [][Next]_vars

\* BlockchainNode.on_peer_connected and IBDState.start_ibd
PeerConnected(sock) ==
    /\ should_start_ibd(State) /\ ~ibd_active
    /\ Becomes(start_ibd(State, sock), "none")
    /\ last' = [op |-> "start_ibd", result |-> "ok"]
    /\ UNCHANGED <<thread_vars, record_vars>>

\* a BLOCK message as GetDataHandler builds it, with the hash of the block as
\* its id; a TX message with the hash of the transaction as its id
BlockMessage(block) == [id |-> block.hash, type |-> "BLOCK", block |-> block]
TxMessage(tx) == [id |-> tx.hash, type |-> "TX", tx |-> tx]

\* the node after route_message has returned r for a BLOCK message
BlockRouted(r, message) ==
    /\ r.handler = "IBD" =>
           Len(StorePending(pending_blocks, message.block)) <= MaxPending
    /\ Becomes(r.st, r.handler)
    /\ last' = [op |-> IF r.handler = "none" THEN "dropped" ELSE r.handler,
                result |-> IF r.handler = "none" THEN "none"
                           ELSE IF r.handler = "IBD" THEN "buffered"
                           ELSE IF BlockHandlerAccepts(State, message)
                           THEN update(State, message.block).result
                           ELSE "invalid",
                id |-> message.id]

\* a BLOCK message from sock goes through route_message
ReceiveBlock(block, sock) ==
    /\ Len(nodes) + Len(pending_blocks) < MaxNodes
    /\ BlockRouted(route_message(State, BlockMessage(block), sock), BlockMessage(block))
    /\ UNCHANGED <<thread_vars, record_vars>>

\* the node after route_message has returned r for a TX message
TxRouted(r, message) ==
    /\ Becomes(r.st, r.handler)
    /\ last' = [op |-> IF r.handler = "none" THEN "dropped" ELSE r.handler,
                result |-> IF message.id \in DOMAIN r.st.mempool THEN "ok" ELSE "none",
                id |-> message.id]

\* a TX message from sock goes through route_message
ReceiveTx(tx, sock) ==
    /\ TxRouted(route_message(State, TxMessage(tx), sock), TxMessage(tx))
    /\ UNCHANGED <<thread_vars, record_vars>>

\* the blocks the peers send
PeerBlocks == {BlockG, BlockA, BlockC, BlockF}

\* The node: peers connect and deliver BLOCK and TX messages.
NextNode ==
    \/ \E sock \in Peers : PeerConnected(sock)
    \/ \E block \in PeerBlocks, sock \in Peers : ReceiveBlock(block, sock)
    \/ \E tx \in OfferedTxs, sock \in Peers : ReceiveTx(tx, sock)

SpecNode == Init /\ [][NextNode]_vars

\* a chain of four blocks, each with a coinbase only
BlockP == CBlock("P", 10, "A", 102, EasyBits, <<Coinbase("cbP")>>)
BlockQ == CBlock("Q", 11, "P", 103, EasyBits, <<Coinbase("cbQ")>>)

OrderedBlocks == {BlockG, BlockA, BlockP, BlockQ}

\* The node when the blocks of one chain are delivered in any order.
NextOrder ==
    \/ \E sock \in Peers : PeerConnected(sock)
    \/ \E block \in OrderedBlocks, sock \in Peers : ReceiveBlock(block, sock)

SpecOrder == Init /\ [][NextOrder]_vars

(***************************************************************************)
(* The IBD coordinator and the clock: a peer connects, time passes and the *)
(* peers deliver blocks or do not.                                         *)
(***************************************************************************)
\* the seconds between two readings of the clock, and the last reading
TickSeconds == 20
MaxTime == 60

\* time passes; no code of the node runs
Tick ==
    /\ now < MaxTime
    /\ now' = now + TickSeconds
    /\ UNCHANGED <<nodes, genesis, tip, block_map, utxos, spent_utxos, mempool,
                   ibd_active, active_peer, pending_blocks, origin, last, checked,
                   seen_messages, last_request_time, sent, thread_vars, record_vars,
                   conn_vars>>

\* the blocks the peers have
IbdBlocks == {BlockG, BlockA}

NextIbd ==
    \/ \E sock \in Peers : PeerConnected(sock)
    \/ \E block \in IbdBlocks, sock \in Peers : ReceiveBlock(block, sock)
    \/ Tick

\* The node during IBD.  Time always passes; a peer is free never to answer.
SpecIbd == Init /\ [][NextIbd]_vars /\ WF_vars(Tick)

(***************************************************************************)
(* miner.py and block.py: the mining thread builds a candidate on the tip, *)
(* sweeps the nonces and hands the mined block to update, while the peers  *)
(* of the node deliver blocks.                                             *)
(***************************************************************************)
\* get_next_work_required: the blocks between two adjustments
INTERVAL == 2016

\* get_next_work_required(tip); get_compact(PROOF_OF_WORK_LIMIT) is EasyBits
\* for hashes of HashBits bits.  The index is shorter than INTERVAL, so the
\* walk back from a tip at a multiple of INTERVAL ends at None.
get_next_work_required(ns, tip_node) ==
    IF tip_node = None THEN EasyBits
    ELSE IF ns[tip_node].height % INTERVAL # 0 THEN ns[tip_node].header.nBits
    ELSE EasyBits

\* the hash of the header with the given nonce, as an integer: the first
\* nonce misses every target of the model and the second meets them
header_hash_int(nonce) == (40000 - 12000 * nonce) % 2^HashBits

\* Miner.create_candidate_block, with the coinbase of
\* create_coinbase_transaction first; the hash is the one of nonce 0
create_candidate_block(ns, prev_block, transactions) ==
    LET prev_hash == IF prev_block # None THEN ns[prev_block].hash ELSE NullHash
    IN  CBlock("m:" \o prev_hash, header_hash_int(0), prev_hash, CurrentTime,
               get_next_work_required(ns, prev_block),
               <<Coinbase("cb:m:" \o prev_hash)>> \o transactions)

\* list(dict.values()); the keys are taken in one fixed order
values(dict) ==
    LET keys == CHOOSE seq \in [1..Cardinality(DOMAIN dict) -> DOMAIN dict] :
                    \A i, j \in DOMAIN seq : i # j => seq[i] # seq[j]
    IN  [i \in DOMAIN keys |-> dict[keys[i]]]

\* the mining thread
MinerThread == "miner"

\* the mining thread between two calls of mine_new_block
IdleMiner == [pc |-> "idle", block |-> None, nonce |-> 0]

InitMiner ==
    /\ nodes = <<>>
    /\ genesis = None
    /\ tip = None
    /\ block_map = EmptyDict
    /\ utxos = EmptyDict
    /\ spent_utxos = EmptyDict
    /\ mempool = EmptyDict
    /\ ibd_active = FALSE
    /\ active_peer = "none"
    /\ pending_blocks = <<>>
    /\ origin = <<>>
    /\ last = [op |-> "init", result |-> "ok"]
    /\ checked = NoCheck
    /\ seen_messages = {}
    /\ state_lock = "free"
    /\ threads = [t \in {MinerThread} |-> IdleMiner]
    /\ subscribers = <<>>
    /\ committed = <<>>
    /\ NoRecords
    /\ ClockStarts
    /\ NoConnections

\* what a step of the mining thread leaves alone when it does not call update
MinerLeaves ==
    UNCHANGED <<nodes, genesis, tip, block_map, utxos, spent_utxos, mempool,
                ibd_active, active_peer, pending_blocks, origin, last, checked,
                seen_messages, state_lock, subscribers, committed,
                record_vars, clock_vars, conn_vars>>

\* Miner.mine_new_block up to the call of mine: the tip is read and the
\* candidate is built on it
MineNewBlock ==
    /\ threads[MinerThread].pc = "idle"
    /\ Len(nodes) + Len(pending_blocks) < MaxNodes
    /\ threads' = [threads EXCEPT ![MinerThread] =
           [pc |-> "sweeping",
            block |-> create_candidate_block(nodes, tip, values(mempool)),
            nonce |-> 0]]
    /\ MinerLeaves

\* mine, one turn of the loop over the nonces: the hash of the header is
\* compared with the target of nBits, and mine returns when it is not above
TryNonce ==
    /\ threads[MinerThread].pc = "sweeping"
    /\ LET hash_int == header_hash_int(threads[MinerThread].nonce)
       IN  threads' = [threads EXCEPT ![MinerThread] =
               IF hash_int <= set_compact(@.block.nBits)
               THEN [@ EXCEPT !.pc = "mined", !.block.hashInt = hash_int]
               ELSE [@ EXCEPT !.nonce = @ + 1]]
    /\ MinerLeaves

\* the block mine_new_block has returned goes to update
SubmitMined ==
    /\ threads[MinerThread].pc = "mined"
    /\ UpdateCall(threads[MinerThread].block)
    /\ threads' = [threads EXCEPT ![MinerThread] = IdleMiner]
    /\ UNCHANGED <<state_lock, subscribers, committed, record_vars>>

NextMiner ==
    \/ MineNewBlock
    \/ TryNonce
    \/ SubmitMined
    \/ \E sock \in Peers : PeerConnected(sock)
    \/ \E block \in IbdBlocks, sock \in Peers : ReceiveBlock(block, sock)

\* The node with its mining thread.
SpecMiner == InitMiner /\ [][NextMiner]_vars

(***************************************************************************)
(* The UTXO set on its own: add, spend, update_from_block and              *)
(* disconnect_block are called in any order.                               *)
(***************************************************************************)
\* the blocks connected and disconnected, and the height they are given
UtxoBlocks == {BlockG, BlockA, BlockB, BlockH}
UtxoHeight == 1

\* the objects handed to add: an entry of a payment, an entry of an
\* unspendable output and an object that is not a UTXO
AddedObjects ==
    { [obj |-> UTXO(COutPoint("pay", 0), CTxOut(30, KeyScript("miner")), 5, FALSE)],
      [obj |-> UTXO(COutPoint("data", 0), CTxOut(0, OpReturnScript), 5, FALSE)],
      [obj |-> CTxOut(30, KeyScript("miner"))] }

\* the outpoints handed to spend
SpentOutpoints == {COutPoint("cbG", 0), COutPoint("pay", 0)}

\* the UTXO set of the variables
Set == [utxos |-> utxos, spent_utxos |-> spent_utxos, err |-> "none"]

\* the UTXO set becomes set after the call op on the block named; the set
\* before the call is kept
SetBecomes(set, op, block) ==
    /\ utxos' = set.utxos
    /\ spent_utxos' = set.spent_utxos
    /\ last' = [op |-> op, result |-> IF set.err = "none" THEN "ok" ELSE set.err,
                block |-> block, before |-> utxos]

\* what a call on the UTXO set leaves alone
UtxoLeaves ==
    UNCHANGED <<nodes, genesis, tip, block_map, mempool, ibd_active, active_peer,
                pending_blocks, origin, checked, seen_messages,
                thread_vars, record_vars, clock_vars, conn_vars>>

UtxoAdd(obj) ==
    /\ SetBecomes(add(Set, obj), "add", "none")
    /\ UtxoLeaves

UtxoSpend(prevout) ==
    /\ SetBecomes(spend(Set, prevout), "spend", "none")
    /\ UtxoLeaves

UtxoConnect(block) ==
    /\ SetBecomes(update_from_block(Set, block, UtxoHeight), "update_from_block",
                  block.hash)
    /\ UtxoLeaves

UtxoDisconnect(block) ==
    /\ SetBecomes(disconnect_block(Set, block), "disconnect_block", block.hash)
    /\ UtxoLeaves

NextUtxo ==
    \/ \E o \in AddedObjects : UtxoAdd(o.obj)
    \/ \E prevout \in SpentOutpoints : UtxoSpend(prevout)
    \/ \E block \in UtxoBlocks : UtxoConnect(block)
    \/ \E block \in UtxoBlocks : UtxoDisconnect(block)

SpecUtxo == Init /\ [][NextUtxo]_vars

(***************************************************************************)
(* A responder: a node whose chain was built by update from a list of      *)
(* blocks, and which receives GETBLOCKS requests.                          *)
(***************************************************************************)
\* the state of a node after construction
NewState ==
    [chain |-> [nodes |-> <<>>, genesis |-> None, tip |-> None,
                block_map |-> EmptyDict],
     utxos |-> EmptyDict, spent_utxos |-> EmptyDict, mempool |-> EmptyDict,
     ibd |-> [active |-> FALSE, active_peer |-> "none", pending_blocks |-> <<>>,
              last_request_time |-> 0],
     seen_messages |-> {}, now |-> 0, sent |-> <<>>]

RECURSIVE StateAfter(_, _)
\* the state after update has been called with each block of the list
StateAfter(st, blocks) ==
    IF blocks = <<>> THEN st
    ELSE StateAfter(update(st, Head(blocks)).st, Tail(blocks))

\* the lists of blocks the responders were built from
ResponderBlocks ==
    {<<>>, <<BlockG>>, <<BlockG, BlockA, BlockB>>, <<BlockG, BlockA, BlockC>>,
     <<BlockG, BlockA, BlockC, BlockD>>, <<BlockG, BlockC, BlockD, BlockE>>}

\* the locators of the requests
Locators ==
    {<<"Z">>, <<"G">>, <<"A">>, <<"A", "G">>, <<"Z", "C">>, <<"D", "G">>,
     <<"B", "A", "G">>, <<"C">>}

\* the hash_stop of the requests
HashStops == {NullHash, "A", "B", "D"}

\* a GETBLOCKS message as _request_next_block builds it: it has no id
GetBlocksMessage(locator, hash_stop) ==
    [type |-> "GETBLOCKS",
     locator |-> [i \in 1..Len(locator) |-> hex(locator[i])],
     hash_stop |-> hex(hash_stop)]

InitGetBlocks ==
    \E blocks \in ResponderBlocks :
        LET st == StateAfter(NewState, blocks)
        IN  /\ nodes = st.chain.nodes
            /\ genesis = st.chain.genesis
            /\ tip = st.chain.tip
            /\ block_map = st.chain.block_map
            /\ utxos = st.utxos
            /\ spent_utxos = st.spent_utxos
            /\ mempool = st.mempool
            /\ ibd_active = FALSE
            /\ active_peer = "none"
            /\ pending_blocks = <<>>
            /\ origin = [i \in 1..Len(st.chain.nodes) |-> "update"]
            /\ last = [op |-> "init", result |-> "ok"]
            /\ checked = NoCheck
            /\ seen_messages = st.seen_messages
            /\ NoThreads
            /\ NoRecords
            /\ ClockStarts
            /\ NoConnections

\* a GETBLOCKS message from sock goes through route_message
ReceiveGetBlocks(message, sock) ==
    /\ LET r == route_message(State, message, sock)
       IN  /\ Becomes(r.st, "none")
           /\ last' = [op |-> IF r.handler = "none" THEN "dropped" ELSE r.handler,
                       message |-> message]
    /\ UNCHANGED <<thread_vars, record_vars>>

NextGetBlocks ==
    \E locator \in Locators, hash_stop \in HashStops, sock \in Peers :
        ReceiveGetBlocks(GetBlocksMessage(locator, hash_stop), sock)

\* The responder and the requests it receives.
SpecGetBlocks == InitGetBlocks /\ [][NextGetBlocks]_vars

(***************************************************************************)
(* The message thread and the main thread: _handle_peer_messages routes    *)
(* the BLOCK messages one after the other, and BlockHandler validates each *)
(* block against the tip it reads and then calls update; the main thread   *)
(* calls update with the blocks its miner returns.                         *)
(***************************************************************************)
\* the thread of _handle_peer_messages
HandlerThread == "handler"

\* the thread of the loop that mines and updates
MainThread == "main"

\* a thread that is not inside a call
IdleHandler == [pc |-> "idle", block |-> None]

\* the blocks the messages carry
HandlerBlocks == {BlockG, BlockA, BlockB, BlockC, BlockF, BlockP, BlockQ}

\* the blocks the miner returns
MinedBlocks == {BlockG, BlockA, BlockB, BlockC, BlockD, BlockP, BlockQ}

InitHandlers ==
    /\ nodes = <<>>
    /\ genesis = None
    /\ tip = None
    /\ block_map = EmptyDict
    /\ utxos = EmptyDict
    /\ spent_utxos = EmptyDict
    /\ mempool = EmptyDict
    /\ ibd_active = FALSE
    /\ active_peer = "none"
    /\ pending_blocks = <<>>
    /\ origin = <<>>
    /\ last = [op |-> "init", result |-> "ok"]
    /\ checked = NoCheck
    /\ seen_messages = {}
    /\ state_lock = "free"
    /\ threads = [t \in {HandlerThread, MainThread} |-> IdleHandler]
    /\ subscribers = <<>>
    /\ committed = <<>>
    /\ NoRecords
    /\ ClockStarts
    /\ NoConnections

\* BlockHandler.__call__ up to the call of update: the tip is read through
\* the accessors, validate_block and the test of block_map are made, and no
\* lock is held when they return
HandlerValidates(block) ==
    /\ threads[HandlerThread].pc = "idle"
    /\ threads' = [threads EXCEPT ![HandlerThread] =
           IF BlockHandlerAccepts(State, BlockMessage(block))
           THEN [pc |-> "validated", block |-> block]
           ELSE IdleHandler]
    /\ last' = [op |-> "validate_block",
                result |-> IF BlockHandlerAccepts(State, BlockMessage(block))
                           THEN "ok" ELSE "invalid"]
    /\ UNCHANGED <<nodes, genesis, tip, block_map, utxos, spent_utxos, mempool,
                   ibd_active, active_peer, pending_blocks, origin, checked,
                   seen_messages, state_lock, subscribers, committed,
                   record_vars, clock_vars, conn_vars>>

\* BlockHandler.__call__, the call of update with the validated block
HandlerUpdates ==
    /\ threads[HandlerThread].pc = "validated"
    /\ UpdateCall(threads[HandlerThread].block)
    /\ threads' = [threads EXCEPT ![HandlerThread] = IdleHandler]
    /\ UNCHANGED <<state_lock, subscribers, committed, record_vars>>

\* the main thread: update with a block the miner built on the tip
MainUpdates(block) ==
    /\ block.hashPrevBlock = (IF tip = None THEN NullHash ELSE nodes[tip].hash)
    /\ UpdateCall(block)
    /\ UNCHANGED <<threads, state_lock, subscribers, committed, record_vars>>

NextHandlers ==
    \/ \E block \in HandlerBlocks : HandlerValidates(block)
    \/ HandlerUpdates
    \/ \E block \in MinedBlocks : MainUpdates(block)

\* The node with its message thread and the main thread.
SpecHandlers == InitHandlers /\ [][NextHandlers]_vars

(***************************************************************************)
(* node.py: the threads that send.  The message thread answers a request   *)
(* with _send_direct_message, the outbox thread sends with                 *)
(* _broadcast_message; connections are registered and, when their reader   *)
(* ends, unregistered.  connection_lock is a threading.Lock: a thread that *)
(* holds it and acquires it again waits.                                   *)
(***************************************************************************)
\* the sockets
Socks == {"s1", "s2", "s3"}

\* the thread that calls _send_direct_message
DirectSender == "handler"

\* the thread that calls _broadcast_message
Broadcaster == "outbox"

SendThreads == {DirectSender, Broadcaster}

\* a thread that is not inside a send
NotSending == [pc |-> "idle", to_remove |-> {}]

InitSend ==
    /\ nodes = <<>>
    /\ genesis = None
    /\ tip = None
    /\ block_map = EmptyDict
    /\ utxos = EmptyDict
    /\ spent_utxos = EmptyDict
    /\ mempool = EmptyDict
    /\ ibd_active = FALSE
    /\ active_peer = "none"
    /\ pending_blocks = <<>>
    /\ origin = <<>>
    /\ last = [op |-> "init", result |-> "ok"]
    /\ checked = NoCheck
    /\ seen_messages = {}
    /\ state_lock = "free"
    /\ threads = [t \in SendThreads |-> NotSending]
    /\ subscribers = <<>>
    /\ committed = <<>>
    /\ NoRecords
    /\ ClockStarts
    /\ NoConnections

\* what the steps of the sending threads leave alone
SendLeaves ==
    UNCHANGED <<nodes, genesis, tip, block_map, utxos, spent_utxos, mempool,
                ibd_active, active_peer, pending_blocks, origin, checked,
                seen_messages, state_lock, subscribers, committed,
                record_vars, clock_vars>>

\* _register_peer: the socket is put into the table of its connection type
RegisterPeer(sock, connection_type) ==
    /\ connection_lock = "free"
    /\ sock \notin inbound_connections \cup outbound_connections
    /\ inbound_connections' = IF connection_type = "incoming"
                              THEN inbound_connections \cup {sock}
                              ELSE inbound_connections
    /\ outbound_connections' = IF connection_type = "incoming"
                               THEN outbound_connections
                               ELSE outbound_connections \cup {sock}
    /\ last' = [op |-> "_register_peer", result |-> sock]
    /\ UNCHANGED <<connection_lock, threads>>
    /\ SendLeaves

\* _send_direct_message and _broadcast_message: with self.connection_lock
AcquireToSend(t) ==
    /\ threads[t].pc = "idle"
    /\ connection_lock = "free"
    /\ connection_lock' = t
    /\ threads' = [threads EXCEPT ![t].pc = "sendall"]
    /\ last' = [op |-> "acquire", result |-> t]
    /\ UNCHANGED <<inbound_connections, outbound_connections>>
    /\ SendLeaves

\* the thread leaves the with block of its send: the lock is released
Return(t, failed) ==
    /\ connection_lock' = "free"
    /\ threads' = [threads EXCEPT ![t] = NotSending]
    /\ last' = [op |-> "return", result |-> t, failed |-> failed]

\* the thread calls _unregister_peer for the sockets in failed
CallUnregister(t, failed) ==
    /\ connection_lock' = connection_lock
    /\ threads' = [threads EXCEPT ![t] = [pc |-> "unregister", to_remove |-> failed]]
    /\ last' = [op |-> "sendall", result |-> t, failed |-> failed]

\* _send_direct_message, sock.sendall(framed): it returns or raises; when it
\* raises and the socket is in a table, _unregister_peer is called
SendDirect(sock, ok) ==
    /\ threads[DirectSender].pc = "sendall"
    /\ IF ok \/ sock \notin inbound_connections \cup outbound_connections
       THEN Return(DirectSender, IF ok THEN {} ELSE {sock})
       ELSE CallUnregister(DirectSender, {sock})
    /\ UNCHANGED <<inbound_connections, outbound_connections>>
    /\ SendLeaves

\* _broadcast_message, the loop over the connections: sendall raises for the
\* sockets in failed, and _unregister_peer is called for each of them
SendToAll(failed) ==
    /\ threads[Broadcaster].pc = "sendall"
    /\ failed \subseteq inbound_connections \cup outbound_connections
    /\ IF failed = {}
       THEN Return(Broadcaster, {})
       ELSE CallUnregister(Broadcaster, failed)
    /\ UNCHANGED <<inbound_connections, outbound_connections>>
    /\ SendLeaves

\* the thread of _handle_connection, which calls _unregister_peer when the
\* reader of a socket ends
ConnReader == "reader"

\* the lock of a threading.RLock: the thread that holds it acquires it again
reentrant_acquires(t) == connection_lock \in {"free", t}

\* _unregister_peer, with self.connection_lock: the lock of a threading.Lock
\* is acquired when it is free
acquires(t) == connection_lock = "free"

\* whether thread t is at a call of _unregister_peer for the socket
calls_unregister(t, sock) ==
    IF t = ConnReader
    THEN sock \in inbound_connections \cup outbound_connections
    ELSE threads[t].pc = "unregister" /\ sock \in threads[t].to_remove

\* _unregister_peer called by thread t: the lock is acquired, the socket is
\* taken out of its table and the lock is given back; a sending thread that
\* has unregistered its last socket leaves its with block
UnregisterPeer(t, sock) ==
    /\ calls_unregister(t, sock)
    /\ acquires(t)
    /\ inbound_connections' = inbound_connections \ {sock}
    /\ outbound_connections' = outbound_connections \ {sock}
    /\ IF t = ConnReader
       THEN /\ last' = [op |-> "_unregister_peer", result |-> sock]
            /\ UNCHANGED <<connection_lock, threads>>
       ELSE IF threads[t].to_remove = {sock}
       THEN Return(t, {sock})
       ELSE /\ threads' = [threads EXCEPT ![t].to_remove = @ \ {sock}]
            /\ last' = [op |-> "_unregister_peer", result |-> sock]
            /\ UNCHANGED connection_lock
    /\ SendLeaves

\* the steps of the sending thread t
SendStep(t) ==
    \/ AcquireToSend(t)
    \/ \E sock \in Socks, ok \in BOOLEAN : t = DirectSender /\ SendDirect(sock, ok)
    \/ \E failed \in SUBSET Socks : t = Broadcaster /\ SendToAll(failed)
    \/ \E sock \in Socks : UnregisterPeer(t, sock)

NextSend ==
    \/ \E sock \in Socks, connection_type \in {"incoming", "outgoing"} :
          RegisterPeer(sock, connection_type)
    \/ \E t \in SendThreads : AcquireToSend(t)
    \/ \E sock \in Socks, ok \in BOOLEAN : SendDirect(sock, ok)
    \/ \E failed \in SUBSET Socks : SendToAll(failed)
    \/ \E t \in SendThreads \cup {ConnReader}, sock \in Socks : UnregisterPeer(t, sock)

\* The sending threads; each of them is scheduled again and again.
SpecSend ==
    InitSend /\ [][NextSend]_vars /\ \A t \in SendThreads : WF_vars(SendStep(t))

(***************************************************************************)
(* block.py: mine.  The call is followed turn by turn of its loops; the    *)
(* nonces run over 0..NonceSpace-1 in the place of 0..2^32-1.              *)
(***************************************************************************)
\* the number of nonces of a sweep
NonceSpace == 4

\* the largest max_attempts of a call
MaxAttempts == 2

\* nBits whose target is 1, and nBits whose target is 0
TinyBits == 16842752 + 65536
ZeroBits == 0

\* what the header hash is computed from besides nTime and nNonce
HeaderSalts == {0, 5000, 20000, 41000}

\* int.from_bytes(block.get_hash(), 'big') for the header with the salt: a
\* fixed function of the fields of the header
get_hash_int(salt, block, nonce) ==
    (salt + 30011 * block.nTime + 12000 * nonce) % 2^HashBits

\* the blocks mine is called with
MineBlocks ==
    {CBlock("m", 0, "G", 100, bits, <<Coinbase("cbm")>>) :
        bits \in {EasyBits, HardBits, TinyBits, ZeroBits}}

\* the call mine(block, max_attempts) before its first statement
MineCall(block, salt, max_attempts) ==
    [pc |-> "called", block |-> block, salt |-> salt, nNonce |-> 0,
     max_attempts |-> max_attempts, attempts |-> 0, hashes_processed |-> 0,
     start |-> block.nTime, result |-> "none"]

InitMine ==
    /\ nodes = <<>>
    /\ genesis = None
    /\ tip = None
    /\ block_map = EmptyDict
    /\ utxos = EmptyDict
    /\ spent_utxos = EmptyDict
    /\ mempool = EmptyDict
    /\ ibd_active = FALSE
    /\ active_peer = "none"
    /\ pending_blocks = <<>>
    /\ origin = <<>>
    /\ last = [op |-> "init", result |-> "ok"]
    /\ checked = NoCheck
    /\ seen_messages = {}
    /\ state_lock = "free"
    /\ \E block \in MineBlocks, salt \in HeaderSalts, max_attempts \in 0..MaxAttempts :
          threads = [t \in {MinerThread} |-> MineCall(block, salt, max_attempts)]
    /\ subscribers = <<>>
    /\ committed = <<>>
    /\ NoRecords
    /\ ClockStarts
    /\ NoConnections

\* what the steps of mine leave alone
MineLeaves ==
    UNCHANGED <<nodes, genesis, tip, block_map, utxos, spent_utxos, mempool,
                ibd_active, active_peer, pending_blocks, origin, last, checked,
                seen_messages, state_lock, subscribers, committed,
                record_vars, clock_vars, conn_vars>>

\* the end of a sweep that leaves nTime as it is
after_sweep_same_time(call) == [call EXCEPT !.pc = "while", !.attempts = @ + 1]

\* mine, the end of a sweep: attempts += 1 and block.nTime += 1
after_sweep(call) ==
    [call EXCEPT !.pc = "while", !.attempts = @ + 1, !.block.nTime = @ + 1]

\* mine up to its while loop: the target is computed, a target of 0 raises
\* ValueError, and the merkle root is set
mine_start(call) ==
    IF set_compact(call.block.nBits) = 0
    THEN [call EXCEPT !.pc = "done", !.result = "ValueError"]
    ELSE [call EXCEPT !.pc = "while",
                      !.block.hashMerkleRoot = build_merkle_root(call.block.vtx)]

\* mine, the test of the while loop: another sweep, or return False
mine_while(call) ==
    IF call.attempts < call.max_attempts
    THEN [call EXCEPT !.pc = "for", !.nNonce = 0]
    ELSE [call EXCEPT !.pc = "done", !.result = "False"]

\* mine, one turn of the for loop: block.nNonce is set and the hash of the
\* header compared with the target; return True, the next nonce, or the end
\* of the sweep
mine_nonce(call) ==
    IF get_hash_int(call.salt, call.block, call.nNonce) <= set_compact(call.block.nBits)
    THEN [call EXCEPT !.pc = "done", !.result = "True"]
    ELSE IF call.nNonce + 1 < NonceSpace
    THEN [call EXCEPT !.nNonce = @ + 1]
    ELSE after_sweep(call)

MineStart ==
    /\ threads[MinerThread].pc = "called"
    /\ threads' = [threads EXCEPT ![MinerThread] = mine_start(@)]
    /\ MineLeaves

MineWhile ==
    /\ threads[MinerThread].pc = "while"
    /\ threads' = [threads EXCEPT ![MinerThread] = mine_while(@)]
    /\ MineLeaves

MineNonce ==
    /\ threads[MinerThread].pc = "for"
    /\ threads' = [threads EXCEPT ![MinerThread] =
           mine_nonce([@ EXCEPT !.hashes_processed = @ + 1])]
    /\ MineLeaves

NextMine ==
    \/ MineStart
    \/ MineWhile
    \/ MineNonce

\* A call of mine; the thread that makes it keeps running.
SpecMine == InitMine /\ [][NextMine]_vars /\ WF_vars(NextMine)

(***************************************************************************)
(* The validators as functions of their arguments: validate_block and      *)
(* validate_transaction are applied to candidate blocks and transactions   *)
(* against a UTXO view.                                                    *)
(***************************************************************************)
\* the outputs of the view: a payment, a coinbase output of height 100 and a
\* coinbase output of height 10
OutPay == COutPoint("pay", 0)
OutYoung == COutPoint("young", 0)
OutOld == COutPoint("old", 0)

ViewFull ==
    (OutPay :> UTXO(OutPay, CTxOut(30, KeyScript("miner")), 5, FALSE))
    @@ (OutYoung :> UTXO(OutYoung, CTxOut(BLOCK_REWARD, KeyScript("miner")), 100, TRUE))
    @@ (OutOld :> UTXO(OutOld, CTxOut(BLOCK_REWARD, KeyScript("miner")), 10, TRUE))

Views == {ViewFull, Del(ViewFull, OutOld)}

\* the heights a block is validated for
CheckHeights == {150, 250}

\* the hash of the block the candidates are expected to extend
ExpectedPrev == "P"

CandidateTxs ==
    { Coinbase("cb1"), Coinbase("cb2"),
      Spend("sA", OutPay, 20), Spend("sB", OutPay, 25), Spend("sN", OutPay, 40),
      Spend("sI", OutYoung, 10), Spend("sM", OutOld, 10),
      Spend("sX", COutPoint("nowhere", 0), 10),
      CTransaction("mix", <<CTxIn(COutPoint(NullHash, NullN), HeightScript),
                            CTxIn(OutPay, SigScript("miner"))>>,
                   <<CTxOut(40, KeyScript("alice"))>>),
      CTransaction("dup", <<CTxIn(OutPay, SigScript("miner")),
                            CTxIn(OutPay, SigScript("miner"))>>,
                   <<CTxOut(50, KeyScript("alice"))>>),
      CTransaction("dupmix", <<CTxIn(COutPoint(NullHash, NullN), HeightScript),
                               CTxIn(OutPay, SigScript("miner")),
                               CTxIn(OutPay, SigScript("miner"))>>,
                   <<CTxOut(50, KeyScript("alice"))>>),
      CTransaction("noin", <<>>, <<CTxOut(1, KeyScript("alice"))>>),
      CTransaction("neg", <<CTxIn(OutPay, SigScript("miner"))>>,
                   <<CTxOut(-1, KeyScript("alice"))>>) }

\* the transaction lists of the candidate blocks
CandidateVtx ==
    {<<>>} \cup {<<a>> : a \in CandidateTxs}
           \cup {<<a, b>> : a \in {Coinbase("cb1"), Spend("sA", OutPay, 20)},
                            b \in CandidateTxs}
           \cup {<<Coinbase("cb1"), b, c>> : b \in CandidateTxs, c \in CandidateTxs}

\* a well-formed header over vtx, and the headers that break one rule each
GoodBlock(vtx) == CBlock("X", 9, ExpectedPrev, 500, EasyBits, vtx)

HeaderVariants(vtx) ==
    { GoodBlock(vtx),
      [GoodBlock(vtx) EXCEPT !.hashPrevBlock = "Q"],
      [GoodBlock(vtx) EXCEPT !.nTime = CurrentTime + MAX_FUTURE_BLOCK_TIME + 1],
      [GoodBlock(vtx) EXCEPT !.nVersion = 0],
      [GoodBlock(vtx) EXCEPT !.hashInt = 40000],
      [GoodBlock(vtx) EXCEPT !.hashMerkleRoot = <<"bad">>] }

CandidateBlocks == UNION {HeaderVariants(vtx) : vtx \in CandidateVtx}

\* the calls made on the validators, before they return
Requests ==
    {[kind |-> "block", block |-> b, height |-> h, result |-> "pending"] :
        b \in CandidateBlocks, h \in CheckHeights}
    \cup {[kind |-> "tx", tx |-> t, height |-> h, result |-> "pending"] :
        t \in CandidateTxs, h \in CheckHeights}

InitValidate ==
    /\ nodes = <<>>
    /\ genesis = None
    /\ tip = None
    /\ block_map = EmptyDict
    /\ utxos \in Views
    /\ spent_utxos = EmptyDict
    /\ mempool = EmptyDict
    /\ ibd_active = FALSE
    /\ active_peer = "none"
    /\ pending_blocks = <<>>
    /\ origin = <<>>
    /\ last = [op |-> "init", result |-> "ok"]
    /\ checked \in Requests
    /\ seen_messages = {}
    /\ NoThreads
    /\ NoRecords
    /\ ClockStarts
    /\ NoConnections

\* validate_block(block, utxo_set, prev_block_hash, block_height)
ValidateBlock ==
    /\ checked.kind = "block"
    /\ checked.result = "pending"
    /\ checked' = [checked EXCEPT !.result =
                      validate_block(checked.block, utxos, ExpectedPrev, checked.height)]
    /\ UNCHANGED <<nodes, genesis, tip, block_map, utxos, spent_utxos, mempool,
                   ibd_active, active_peer, pending_blocks, origin, last,
                   seen_messages, thread_vars, record_vars, clock_vars, conn_vars>>

\* validate_transaction(tx, utxo_set, block_height)
ValidateTx ==
    /\ checked.kind = "tx"
    /\ checked.result = "pending"
    /\ checked' = [checked EXCEPT !.result =
                      validate_transaction(checked.tx, utxos, checked.height)]
    /\ UNCHANGED <<nodes, genesis, tip, block_map, utxos, spent_utxos, mempool,
                   ibd_active, active_peer, pending_blocks, origin, last,
                   seen_messages, thread_vars, record_vars, clock_vars, conn_vars>>

NextValidate == ValidateBlock \/ ValidateTx

SpecValidate == InitValidate /\ [][NextValidate]_vars

(***************************************************************************)
(* Competing branches: update is called with the blocks of two branches    *)
(* and transactions are submitted in between; the UTXO set and the mempool *)
(* are recorded whenever a block becomes the tip.                          *)
(***************************************************************************)
\* a block on A with four times the work of the others
BlockK == CBlock("K", 7, "A", 102, HardBits, <<Coinbase("cbK")>>)
\* a block on the genesis that holds cbX after its coinbase, and a block on it
BlockS == CBlock("S", 8, "G", 101, EasyBits, <<Coinbase("cbS"), Coinbase("cbX")>>)
BlockT == CBlock("T", 9, "S", 102, EasyBits, <<Coinbase("cbT")>>)

BranchBlocks == {BlockG, BlockA, BlockC, BlockD, BlockK, BlockS, BlockT}

\* the record of a node that has not been the tip
NeverTip == [was_tip |-> FALSE]

\* update(block), and the record of the node that became the tip
UpdateRecorded(block) ==
    /\ UpdateCall(block)
    /\ at_tip' = [i \in 1..Len(nodes') |->
                    IF i <= Len(at_tip) THEN at_tip[i]
                    ELSE IF i = tip'
                    THEN [was_tip |-> TRUE, utxos |-> utxos', mempool |-> mempool',
                          admitted |-> admitted]
                    ELSE NeverTip]
    /\ UNCHANGED <<thread_vars, admitted>>

\* send_raw_transaction(tx), and the record of the transaction when it was
\* put into the mempool
SubmitRecorded(tx) ==
    /\ SendRawTransactionCall(tx)
    /\ admitted' = IF tx.hash \in DOMAIN mempool' THEN admitted \cup {tx.hash}
                   ELSE admitted
    /\ UNCHANGED <<thread_vars, at_tip>>

NextBranches ==
    \/ \E block \in BranchBlocks : UpdateRecorded(block)
    \/ \E tx \in OfferedTxs : SubmitRecorded(tx)

SpecBranches == Init /\ [][NextBranches]_vars

(***************************************************************************)
(* Threads: several threads call ChainState.update, which holds the state  *)
(* lock while it changes the index, the UTXO set and the mempool and calls *)
(* the registered callbacks after it has released the lock; another thread *)
(* reads the state through the accessors.                                  *)
(***************************************************************************)
\* the threads that call update, and the thread that reads
Writers == {"w1", "w2"}
Reader == "r"

\* the callbacks registered, in the order of register: the first raises
\* whenever it is called, the second records the block
Callbacks == <<"faulty", "recorder">>

callback_raises(func) == func = "faulty"

\* the blocks the threads pass to update
ThreadBlocks == {BlockG, BlockA, BlockC}

\* a thread that is not inside a call
Idle == [pc |-> "idle", block |-> None, new_index |-> None, cb |-> 0,
         outcome |-> "none"]

\* the index, the UTXO set, the mempool and the node as they are, but for
\* the variables a step of a thread leaves alone
ThreadLeaves ==
    UNCHANGED <<ibd_active, active_peer, pending_blocks, last, checked,
                seen_messages, record_vars, clock_vars, conn_vars>>

InitThreads ==
    /\ nodes = <<>>
    /\ genesis = None
    /\ tip = None
    /\ block_map = EmptyDict
    /\ utxos = EmptyDict
    /\ spent_utxos = EmptyDict
    /\ mempool = EmptyDict
    /\ ibd_active = FALSE
    /\ active_peer = "none"
    /\ pending_blocks = <<>>
    /\ origin = <<>>
    /\ last = [op |-> "init", result |-> "ok"]
    /\ checked = NoCheck
    /\ seen_messages = {}
    /\ state_lock = "free"
    /\ threads = [t \in Writers |-> Idle]
    /\ subscribers = [i \in 1..Len(Callbacks) |-> <<>>]
    /\ committed = <<>>
    /\ NoRecords
    /\ ClockStarts
    /\ NoConnections

\* update, lines 36-37: the thread takes the state lock and add_block puts
\* the block into the index; a ValueError of add_block ends the call
EnterUpdate(t, block) ==
    /\ threads[t].pc = "idle"
    /\ state_lock = "free"
    /\ Len(nodes) < MaxUpdates
    /\ LET r == add_block(Chain, block)
       IN  IF r.err # "none"
           THEN /\ threads' = [threads EXCEPT ![t] =
                                  [Idle EXCEPT !.block = block, !.outcome = "rejected"]]
                /\ UNCHANGED <<nodes, genesis, tip, block_map, origin, state_lock>>
           ELSE /\ nodes' = r.chain.nodes
                /\ genesis' = r.chain.genesis
                /\ tip' = r.chain.tip
                /\ block_map' = r.chain.block_map
                /\ origin' = Append(origin, "update")
                /\ state_lock' = t
                /\ threads' = [threads EXCEPT ![t] =
                                  [pc |-> "indexed", block |-> block,
                                   new_index |-> r.new_index, cb |-> 0,
                                   outcome |-> "none"]]
    /\ UNCHANGED <<utxos, spent_utxos, mempool, subscribers, committed>>
    /\ ThreadLeaves

\* update, lines 39-51: the UTXO set follows the index and the mempool is
\* cleared; the thread leaves the lock, to notify when nothing was raised
ApplyBlock(t) ==
    /\ threads[t].pc = "indexed"
    /\ LET block == threads[t].block
           new_index == threads[t].new_index
           set == [utxos |-> utxos, spent_utxos |-> spent_utxos, err |-> "none"]
           u == IF tip = new_index
                THEN update_from_block(set, block, nodes[new_index].height)
                ELSE handle_chain_reorg(Chain, set, new_index)
           pool == IF u.err = "none" THEN ClearMined(mempool, Tail(block.vtx))
                   ELSE mempool
       IN  /\ utxos' = u.utxos
           /\ spent_utxos' = u.spent_utxos
           /\ mempool' = pool
           /\ committed' = Append(committed,
                  [hash |-> block.hash, index |-> new_index, ok |-> u.err = "none",
                   tip |-> tip, utxos |-> DOMAIN u.utxos, mempool |-> DOMAIN pool])
           /\ threads' = [threads EXCEPT ![t] =
                  IF u.err = "none"
                  THEN [@ EXCEPT !.pc = "notify", !.cb = 1]
                  ELSE [@ EXCEPT !.pc = "idle", !.outcome = u.err]]
    /\ state_lock' = "free"
    /\ UNCHANGED <<nodes, genesis, tip, block_map, origin, subscribers>>
    /\ ThreadLeaves

\* _notify without the try: the exception of a callback leaves update
after_callback_propagating(i, raised) ==
    IF raised THEN [next |-> Len(Callbacks) + 1, outcome |-> "Exception"]
    ELSE [next |-> i + 1, outcome |-> IF i = Len(Callbacks) THEN "returned" ELSE "none"]

\* _notify after the callback at position i: an exception of the callback is
\* caught and the loop goes on
after_callback(i, raised) ==
    [next |-> i + 1, outcome |-> IF i = Len(Callbacks) THEN "returned" ELSE "none"]

\* _notify, one turn of the loop: the next callback is called with the block
InvokeCallback(t) ==
    /\ threads[t].pc = "notify"
    /\ LET i == threads[t].cb
           a == after_callback(i, callback_raises(Callbacks[i]))
       IN  /\ subscribers' = [subscribers EXCEPT ![i] = Append(@, threads[t].block.hash)]
           /\ threads' = [threads EXCEPT ![t] =
                  IF a.next > Len(Callbacks)
                  THEN [@ EXCEPT !.pc = "idle", !.cb = 0, !.outcome = a.outcome]
                  ELSE [@ EXCEPT !.cb = a.next]]
    /\ UNCHANGED <<nodes, genesis, tip, block_map, origin, utxos, spent_utxos,
                   mempool, state_lock, committed>>
    /\ ThreadLeaves

NextThreads ==
    \/ \E t \in Writers, block \in ThreadBlocks : EnterUpdate(t, block)
    \/ \E t \in Writers : ApplyBlock(t)
    \/ \E t \in Writers : InvokeCallback(t)

SpecThreads == InitThreads /\ [][NextThreads]_vars

\* the properties of ChainState, in the order in which the reader uses them
Properties == <<"chain", "utxo_set", "mempool">>

\* where the reader is when it holds the object of the property at position
\* k, when it has read it, and before it uses the property
Held == <<"chain_held", "utxo_set_held", "mempool_held">>
HasRead == <<"chain_read", "utxo_set_read", "mempool_read">>
BeforeProperty(k) == IF k = 1 THEN "idle" ELSE HasRead[k - 1]

\* a reader that has read nothing
IdleReader == [pc |-> "idle", tip |-> None, utxos |-> {}, mempool |-> {}]

InitObserve ==
    /\ nodes = <<>>
    /\ genesis = None
    /\ tip = None
    /\ block_map = EmptyDict
    /\ utxos = EmptyDict
    /\ spent_utxos = EmptyDict
    /\ mempool = EmptyDict
    /\ ibd_active = FALSE
    /\ active_peer = "none"
    /\ pending_blocks = <<>>
    /\ origin = <<>>
    /\ last = [op |-> "init", result |-> "ok"]
    /\ checked = NoCheck
    /\ seen_messages = {}
    /\ state_lock = "free"
    /\ threads = [t \in {"w1", Reader} |-> IF t = Reader THEN IdleReader ELSE Idle]
    /\ subscribers = [i \in 1..Len(Callbacks) |-> <<>>]
    /\ committed = <<>>
    /\ NoRecords
    /\ ClockStarts
    /\ NoConnections

\* the property chain, utxo_set or mempool: the reader takes the state lock,
\* gets the object the ChainState holds and leaves the lock
Accessor(k) ==
    /\ threads[Reader].pc = BeforeProperty(k)
    /\ state_lock = "free"
    /\ threads' = [threads EXCEPT ![Reader].pc = Held[k]]
    /\ UNCHANGED <<nodes, genesis, tip, block_map, origin, utxos, spent_utxos,
                   mempool, state_lock, subscribers, committed>>
    /\ ThreadLeaves

\* the reader reads the object the accessor returned: chain.tip, the keys of
\* utxo_set.utxos or the keys of the mempool, as they are at that moment
ReadField(k) ==
    /\ threads[Reader].pc = Held[k]
    /\ threads' = [threads EXCEPT ![Reader] =
           [pc |-> HasRead[k],
            tip |-> IF k = 1 THEN tip ELSE @.tip,
            utxos |-> IF k = 2 THEN DOMAIN utxos ELSE @.utxos,
            mempool |-> IF k = 3 THEN DOMAIN mempool ELSE @.mempool]]
    /\ UNCHANGED <<nodes, genesis, tip, block_map, origin, utxos, spent_utxos,
                   mempool, state_lock, subscribers, committed>>
    /\ ThreadLeaves

NextObserve ==
    \/ \E block \in ThreadBlocks : EnterUpdate("w1", block)
    \/ ApplyBlock("w1")
    \/ InvokeCallback("w1")
    \/ \E k \in 1..Len(Properties) : Accessor(k)
    \/ \E k \in 1..Len(Properties) : ReadField(k)

SpecObserve == InitObserve /\ [][NextObserve]_vars

(***************************************************************************)
(* Properties of the chain state.                                          *)
(***************************************************************************)
\* the nodes from the genesis to the tip, by pprev
MainChainPath == IF tip = None THEN <<>> ELSE PathTo(nodes, genesis, tip)

\* the UTXO set obtained from an empty set by connecting the main chain
ReplayMainChain == ConnectAll(nodes, EmptyUTXOSet, MainChainPath).utxos

\* C1: after any sequence of update calls the UTXO set equals the set
\* obtained by connecting, from an empty set and in height order, the blocks
\* of the main chain from the genesis to the tip.
C1_UtxoEqualsReplay == utxos = ReplayMainChain

\* the outpoints of every output of the blocks of the nodes in path
CreatedBy(ns, path) ==
    UNION {UNION {{COutPoint(ns[path[k]].header.vtx[t].hash, i - 1) :
                      i \in 1..Len(ns[path[k]].header.vtx[t].vout)} :
                  t \in 1..Len(ns[path[k]].header.vtx)} : k \in 1..Len(path)}

\* the outpoints the blocks of path create with a spendable script and do
\* not spend themselves
UnspentOf(ns, path) ==
    UNION {UNION {{COutPoint(ns[path[k]].header.vtx[t].hash, i - 1) :
                      i \in {j \in 1..Len(ns[path[k]].header.vtx[t].vout) :
                                ~is_op_return(ns[path[k]].header.vtx[t].vout[j].scriptPubKey)}} :
                  t \in 1..Len(ns[path[k]].header.vtx)} : k \in 1..Len(path)}
    \ UNION {UNION {{ns[path[k]].header.vtx[t].vin[i].prevout :
                        i \in 1..Len(ns[path[k]].header.vtx[t].vin)} :
                    t \in 1..Len(ns[path[k]].header.vtx)} : k \in 1..Len(path)}

\* the step moves the tip to a node that is not a child of the previous tip
ReorgStep == tip # None /\ tip' # tip /\ nodes'[tip'].pprev # tip

\* C2: when update makes the tip a block of another branch, afterwards no
\* output created by the blocks from the previous tip down to the fork point
\* is in the UTXO set and the unspent outputs of the blocks from the fork
\* point up to the new tip are.
C2_ReorgSwitchesOutputs ==
    [][ReorgStep =>
        LET fork_block == find_fork_point(nodes', tip, tip')
            old == Tail(PathTo(nodes', fork_block, tip))
            new == Tail(PathTo(nodes', fork_block, tip'))
        IN  /\ CreatedBy(nodes', old) \cap DOMAIN utxos' = {}
            /\ UnspentOf(nodes', new) \subseteq DOMAIN utxos']_vars

\* C3: the tip has at least the cumulative work of every node of the index.
C3_TipHasMostWork ==
    tip # None => \A i \in 1..Len(nodes) : nodes[i].chain_work <= nodes[tip].chain_work

\* a branch higher than the tip's is in the index and has less work
C3_Witness ==
    tip # None /\ \E i \in 1..Len(nodes) :
        nodes[i].height > nodes[tip].height /\ nodes[i].chain_work < nodes[tip].chain_work

RECURSIVE FollowNext(_, _, _)
\* the nodes visited from current by pnext, at most fuel of them
FollowNext(ns, current, fuel) ==
    IF current = None \/ fuel = 0 THEN <<>>
    ELSE <<current>> \o FollowNext(ns, ns[current].pnext, fuel - 1)

MainChainByNext == FollowNext(nodes, genesis, Len(nodes) + 1)

OnMainChain(i) == \E k \in 1..Len(MainChainByNext) : MainChainByNext[k] = i

\* C4: following pnext from the genesis visits exactly the ancestors of the
\* tip in increasing height and ends at the tip, and every node off that path
\* has pnext = None.
C4_PnextIsMainChain ==
    genesis # None =>
        /\ MainChainByNext = MainChainPath
        /\ \A k \in 1..Len(MainChainByNext) : nodes[MainChainByNext[k]].height = k - 1
        /\ MainChainByNext[Len(MainChainByNext)] = tip
        /\ \A i \in 1..Len(nodes) : ~OnMainChain(i) => nodes[i].pnext = None

\* a node that was the tip when it was created, and its parent, are now off
\* the main chain: a reorganization has abandoned them
C4_Witness ==
    \E c \in 1..Len(nodes) :
        /\ nodes[c].pprev # None
        /\ ~OnMainChain(c) /\ ~OnMainChain(nodes[c].pprev)
        /\ \A j \in 1..(c - 1) : nodes[j].chain_work < nodes[c].chain_work

\* C6: when update fails after the block index was modified, the block
\* index, the tip, the UTXO set and the mempool are as before the call.
C6_FailedUpdateLeavesState ==
    [][(last'.op = "update" /\ last'.result \in {"ValueError", "KeyError"})
       => UNCHANGED <<nodes, genesis, tip, block_map, utxos, mempool>>]_vars

\* the step has put a node into the index
NodeAdded == Len(nodes') = Len(nodes) + 1

\* the node the step has put into the index
NewNode == nodes'[Len(nodes')]

\* C23: an update whose block is put into the index and does not become the
\* tip leaves the UTXO set unchanged.
C23_SideBranchKeepsUtxos ==
    [][(last'.op = "update" /\ NodeAdded /\ tip' # Len(nodes'))
       => utxos' = utxos]_vars

\* the pnext of every node that was in the index before the step is as it was
PnextKept == \A i \in 1..Len(nodes) : nodes'[i].pnext = nodes[i].pnext

\* C24: a block whose cumulative work equals the tip's leaves the tip and
\* every pnext as they were and gets no pnext itself; the tip moves only to
\* a node with strictly more work than the tip had.
C24_FirstSeenWins ==
    [][(NodeAdded /\ tip # None) =>
          /\ NewNode.chain_work = nodes[tip].chain_work
                 => (tip' = tip /\ PnextKept /\ NewNode.pnext = None)
          /\ tip' # tip => nodes'[tip'].chain_work > nodes[tip].chain_work]_vars

\* a node that came after the tip has the work of the tip and is off the
\* main chain
C24_Witness ==
    tip # None /\ \E i \in 1..Len(nodes) :
        /\ i > tip
        /\ nodes[i].chain_work = nodes[tip].chain_work
        /\ nodes[i].pnext = None /\ nodes[nodes[i].pprev].pnext # i

\* the block has no parent in the index and is not a first genesis
Parentless(block) ==
    /\ block.hashPrevBlock \notin DOMAIN block_map
    /\ (block.hashPrevBlock # NullHash \/ genesis # None)

\* the call has raised ValueError and the chain is as it was
RaisedAndKept(r, chain) == r.err = "ValueError" /\ r.chain = chain

\* C25: add_block of a block whose parent is not in the index raises and
\* leaves genesis, tip, block_map and every node (its children and pnext)
\* unchanged, both when the prev hash is not the null hash and when it is the
\* null hash and a genesis exists.
C25_ParentlessBlockRaises ==
    \A block \in Blocks :
        Parentless(block) => RaisedAndKept(add_block(Chain, block), Chain)

\* an update was refused by add_block on an index with a genesis, for which
\* both a block with the null prev hash and a block with an unknown parent
\* are refused
C25_Witness ==
    /\ last.op = "update" /\ last.result = "rejected"
    /\ genesis # None
    /\ \E block \in Blocks : Parentless(block) /\ block.hashPrevBlock = NullHash
    /\ \E block \in Blocks : Parentless(block) /\ block.hashPrevBlock # NullHash

\* C26: no call creates an index node for a hash that is already in
\* block_map; the index, the tip, the UTXO set and the mempool are as before
\* such a call.
C26_DuplicateBlockRejected ==
    [][(NodeAdded /\ NewNode.hash \in DOMAIN block_map)
       => UNCHANGED <<nodes, genesis, tip, block_map, utxos, mempool>>]_vars

\* IBD is active and the last GETBLOCKS is older than STALE_THRESHOLD
StaleRequest == ibd_active /\ now - last_request_time > STALE_THRESHOLD

\* C21: whenever IBD is active and more than 30 seconds have passed since
\* the last GETBLOCKS, a further GETBLOCKS is sent eventually, unless a block
\* is connected first (which ends IBD).
C21_StaleRequestIsReissued ==
    \A n \in 0..MaxNodes :
        (StaleRequest /\ Len(sent) = n) ~> (Len(sent) > n \/ ~ibd_active)

\* the hash a block must have as its parent to extend the tip
TipHash == IF tip = None THEN NullHash ELSE nodes[tip].hash

\* mine returns: the sweep of the nonces has found a hash under the target
MinerFinishes ==
    threads[MinerThread].pc = "sweeping" /\ threads'[MinerThread].pc = "mined"

\* C22: the mining thread never finishes the sweep of a candidate built on a
\* block that is no longer the tip: when the tip has changed during the
\* sweep the candidate is dropped for one on the new tip.
C22_StaleCandidateAbandoned ==
    [][MinerFinishes => threads[MinerThread].block.hashPrevBlock = TipHash]_vars

\* the step is disconnect_block of the block that update_from_block has just
\* connected without an error
DisconnectAfterConnect ==
    /\ last.op = "update_from_block" /\ last.result = "ok"
    /\ last'.op = "disconnect_block" /\ last'.block = last.block

\* C27: disconnect_block(B) right after a successful update_from_block(B, h)
\* succeeds and leaves the UTXO set as it was before B was connected.
C27_DisconnectUndoesConnect ==
    [][DisconnectAfterConnect => (last'.result = "ok" /\ utxos' = last.before)]_vars

\* C28: the UTXO set holds no entry whose script is of OP_RETURN form.
C28_NoOpReturnEntry ==
    \A prevout \in DOMAIN utxos : ~is_op_return(utxos[prevout].tx_out.scriptPubKey)

\* the transactions of the mempool whose inputs update_from_block spends
Spending == {h \in DOMAIN mempool : ~is_coinbase(mempool[h])}

\* the outpoints the transaction names in its inputs
Prevouts(tx) == {tx.vin[i].prevout : i \in 1..Len(tx.vin)}

\* update_from_block of the block on the UTXO set of the variables, at the
\* height above the tip, raises nothing
Connects(block) ==
    update_from_block(Set, block, IF tip = None THEN 0 ELSE nodes[tip].height + 1).err
    = "none"

C32_LocatorEndsAtGenesis ==
    tip # None =>
        build_locator(Chain)[Len(build_locator(Chain))] = nodes[genesis].hash

\* the locator of the request last routed, as hashes
LastLocator ==
    [i \in 1..Len(last.message.locator) |-> fromhex(last.message.locator[i])]

\* the positions of the hashes of the locator that are in the block index
KnownAt == {i \in 1..Len(LastLocator) : LastLocator[i] \in DOMAIN block_map}

\* the fork point: the block of the first known hash of the locator
ForkPoint ==
    IF KnownAt = {} THEN None
    ELSE block_map[LastLocator[CHOOSE i \in KnownAt : \A j \in KnownAt : i <= j]]

\* the blocks of the main chain after the fork point, in increasing height
AfterFork(path) ==
    IF ForkPoint = None THEN path
    ELSE IF \E k \in 1..Len(path) : path[k] = ForkPoint
    THEN SubSeq(path, (CHOOSE k \in 1..Len(path) : path[k] = ForkPoint) + 1, Len(path))
    ELSE <<>>

\* the blocks of the list before the one with the hash
Before(path, hash) ==
    IF \E k \in 1..Len(path) : nodes[path[k]].hash = hash
    THEN SubSeq(path, 1, (CHOOSE k \in 1..Len(path) :
                            /\ nodes[path[k]].hash = hash
                            /\ \A j \in 1..(k - 1) : nodes[path[j]].hash # hash) - 1)
    ELSE path

\* the first n elements of the list
FirstN(path, n) == SubSeq(path, 1, IF Len(path) < n THEN Len(path) ELSE n)

\* the inventory the request last routed asks for
ExpectedInventory(path) ==
    [k \in 1..Len(path) |-> <<"MSG_BLOCK", hex(nodes[path[k]].hash)>>]

\* the INV message the node has sent last
LastInv == sent[Len(sent)].message

C34_IdlessMessagesDelivered ==
    [][(/\ last.op = "GetBlocksHandler"
        /\ "id" \notin DOMAIN last.message
        /\ "message" \in DOMAIN last'
        /\ "id" \notin DOMAIN last'.message
        /\ last'.message # last.message)
       => last'.op = "GetBlocksHandler"]_vars

\* C35: a thread whose send to a peer has failed returns from the call, and
\* the peer is then in neither table.
C35_FailedSendReturns ==
    \A t \in SendThreads : \A sock \in Socks :
        (threads[t].pc = "unregister" /\ sock \in threads[t].to_remove)
        ~> (/\ threads[t].pc = "idle"
            /\ sock \notin inbound_connections \cup outbound_connections)

\* the call of mine
Mining == threads[MinerThread]

\* no header with the time has a hash within the target, whatever its nonce
SweepMisses(time) ==
    \A nonce \in 0..(NonceSpace - 1) :
        get_hash_int(Mining.salt, [Mining.block EXCEPT !.nTime = time], nonce)
            > set_compact(Mining.block.nBits)

\* mine returned True with the first nonce of the current nTime whose hash
\* is within the target, after a full sweep of every earlier nTime
ReturnedTrue ==
    /\ Mining.block.nTime = Mining.start + Mining.attempts
    /\ Mining.attempts < Mining.max_attempts
    /\ \A time \in Mining.start..(Mining.block.nTime - 1) : SweepMisses(time)
    /\ \A nonce \in 0..(Mining.nNonce - 1) :
           get_hash_int(Mining.salt, Mining.block, nonce)
               > set_compact(Mining.block.nBits)
    /\ get_hash_int(Mining.salt, Mining.block, Mining.nNonce)
           <= set_compact(Mining.block.nBits)

\* mine returned False after max_attempts full sweeps, with nTime one more
\* after each
ReturnedFalse ==
    /\ Mining.attempts = Mining.max_attempts
    /\ Mining.hashes_processed = Mining.max_attempts * NonceSpace
    /\ Mining.block.nTime = Mining.start + Mining.max_attempts
    /\ \A time \in Mining.start..(Mining.block.nTime - 1) : SweepMisses(time)

\* C36: a call of mine with a target other than 0 returns; it returns True
\* with the first nonce, in increasing order, of the current nTime whose
\* hash is within the target, or False after exactly max_attempts sweeps
\* with nTime one more after each.
C36_MineTerminates ==
    /\ (set_compact(Mining.block.nBits) # 0) ~> (Mining.pc = "done")
    /\ [](Mining.pc = "done" /\ set_compact(Mining.block.nBits) # 0
            => /\ Mining.result \in {"True", "False"}
               /\ Mining.result = "True" => ReturnedTrue
               /\ Mining.result = "False" => ReturnedFalse)

\* mine has returned True with a nonce other than 0 after a full sweep
C36_Witness ==
    /\ Mining.pc = "done"
    /\ Mining.result = "True"
    /\ Mining.attempts >= 1
    /\ Mining.nNonce >= 1

\* the message thread passes its block to update
HandlerApplies ==
    /\ threads[HandlerThread].pc = "validated"
    /\ threads'[HandlerThread].pc = "idle"

\* C31: every block the message thread passes to update has the tip of that
\* moment as its parent.
C31_ValidatedBlockExtendsTip ==
    [][HandlerApplies => threads[HandlerThread].block.hashPrevBlock = TipHash]_vars

(***************************************************************************)
(* Properties of competing branches.                                       *)
(***************************************************************************)
\* the nodes of the main chain after the step
MainChainPathAfter == IF tip' = None THEN <<>> ELSE PathTo(nodes', genesis', tip')

\* the nodes the step has put on the main chain
ConnectedByStep ==
    {MainChainPathAfter[k] : k \in 1..Len(MainChainPathAfter)}
    \ {MainChainPath[k] : k \in 1..Len(MainChainPath)}

\* C15: after a successful update the mempool holds no transaction, other
\* than the coinbase at the head, of any block the update has put on the main
\* chain, from the fork point to the new tip.
C15_ConnectedTxsLeaveMempool ==
    [][(last'.op = "update" /\ last'.result = "ok" /\ nodes' # nodes) =>
        \A i \in ConnectedByStep :
            \A t \in 2..Len(nodes'[i].header.vtx) :
                nodes'[i].header.vtx[t].hash \notin DOMAIN mempool']_vars

\* a is b or an ancestor of b in the index ns
IsAncestor(ns, a, b) ==
    \E k \in 1..Len(PathTo(ns, 1, b)) : PathTo(ns, 1, b)[k] = a

\* the step brings the main chain back to the branch of b: b has been the
\* tip, the tip before the step is on another branch, and the new tip is a
\* descendant of b with no former tip in between
ReturnsTo(b) ==
    /\ tip # None /\ tip' # tip /\ tip' # None
    /\ b <= Len(at_tip) /\ at_tip[b].was_tip
    /\ b # tip' /\ IsAncestor(nodes', b, tip')
    /\ ~IsAncestor(nodes, b, tip)
    /\ \A c \in 1..Len(at_tip) :
           (c # b /\ at_tip[c].was_tip /\ IsAncestor(nodes', b, c))
               => ~IsAncestor(nodes', c, tip')

\* the nodes after b on the way to the new tip
AddedSince(b) == Tail(PathTo(nodes', b, tip'))

RECURSIVE ClearAll(_, _, _)
\* the mempool without the transactions after the coinbase of the blocks of path
ClearAll(ns, pool, path) ==
    IF path = <<>> THEN pool
    ELSE ClearAll(ns, ClearMined(pool, Tail(ns[Head(path)].header.vtx)), Tail(path))

\* C16: when the main chain comes back to a branch it had left for one with
\* more work, the UTXO set and the mempool are those of the time before the
\* other branch was connected, but for the blocks added to the branch since.
C16_ReturnRestoresState ==
    [][\A b \in 1..Len(nodes) :
          ReturnsTo(b) =>
              /\ utxos' = ConnectAll(nodes',
                                     [utxos |-> at_tip[b].utxos,
                                      spent_utxos |-> EmptyDict, err |-> "none"],
                                     AddedSince(b)).utxos
              /\ admitted = at_tip[b].admitted
                     => mempool' = ClearAll(nodes', at_tip[b].mempool, AddedSince(b))]_vars

(***************************************************************************)
(* Properties of the node.                                                 *)
(***************************************************************************)
\* C5: every block inserted into the block index through a block-receiving
\* path of the node has passed validate_block; its header hash is at most the
\* target of its nBits.
C5_InsertedBlocksMeetTarget ==
    \A i \in 1..Len(nodes) :
        origin[i] \in {"BlockHandler", "IBD"}
            => nodes[i].header.hashInt <= set_compact(nodes[i].header.nBits)

\* the step is the delivery of a message
Delivery == last'.op \in {"dropped", "IBD", "BlockHandler", "TxHandler"}

\* C17: a BLOCK or TX message whose id the node has seen is not handed to a
\* handler again, whichever peer sends it: the handler of a message is called
\* only when the id is new, the call marks the id as seen, and the delivery of
\* a message with a seen id leaves the index, the UTXO set, the mempool and
\* the buffered blocks as they are.
C17_DuplicateDeliveryIgnored ==
    [][Delivery =>
        /\ last'.op # "dropped" =>
               (last'.id \notin seen_messages /\ last'.id \in seen_messages')
        /\ last'.id \in seen_messages =>
               UNCHANGED <<nodes, genesis, tip, block_map, utxos, spent_utxos,
                           mempool, pending_blocks, seen_messages>>]_vars

\* the message of a block that is in the index has been delivered again and
\* was dropped
C17_Witness ==
    /\ last.op = "dropped"
    /\ last.id \in DOMAIN block_map
    /\ last.id \in seen_messages

RECURSIVE ChainHeight(_)
\* the height of a block of OrderedBlocks in the chain they form
ChainHeight(block) ==
    IF block.hashPrevBlock = NullHash THEN 0
    ELSE 1 + ChainHeight(CHOOSE p \in OrderedBlocks : p.hash = block.hashPrevBlock)

\* the message of the block has been delivered to the node
Delivered(block) == block.hash \in seen_messages

IsBuffered(block) ==
    \E k \in 1..Len(pending_blocks) : pending_blocks[k].hash = block.hash

IsConnected(block) ==
    block.hash \in DOMAIN block_map /\ OnMainChain(block_map[block.hash])

\* C18: a block of height 3 delivered before its parent of height 2 is
\* buffered and is not on the main chain; once the parent has been delivered
\* and connected, the block is connected and is the tip.
C18_BufferedChildConnects ==
    \A p, q \in OrderedBlocks :
        (q.hashPrevBlock = p.hash /\ ChainHeight(q) = 3 /\ Delivered(q)) =>
            /\ ~Delivered(p) => (IsBuffered(q) /\ ~IsConnected(q))
            /\ IsConnected(p) => (IsConnected(q) /\ tip = block_map[q.hash])

(***************************************************************************)
(* Properties of the validators.                                           *)
(***************************************************************************)
\* the validator has returned with an error
Rejected == checked.result \notin {"ok", "pending"}

\* a transaction of coinbase form: one input, with the null outpoint
CoinbaseForm(tx) == Len(tx.vin) = 1 /\ is_null(tx.vin[1].prevout)

BlockAccepted == checked.kind = "block" /\ checked.result = "ok"

\* the header, the proof of work, the coinbase and the merkle root of the
\* checked block are in order
CheckedBlockSound ==
    /\ checked.kind = "block"
    /\ validate_block_header(checked.block, ExpectedPrev) = "ok"
    /\ validate_pow(checked.block) = "ok"
    /\ validate_merkle_root(checked.block) = "ok"
    /\ Len(checked.block.vtx) >= 1
    /\ validate_block_transactions([checked.block EXCEPT !.vtx = <<@[1]>>],
                                   utxos, checked.height) = "ok"

\* C7: every block accepted by validate_block has exactly one coinbase
\* transaction, at index 0; a block with a second transaction of coinbase
\* form is rejected.
C7_OneCoinbaseAtIndexZero ==
    BlockAccepted =>
        /\ CoinbaseForm(checked.block.vtx[1])
        /\ \A t \in 2..Len(checked.block.vtx) : ~CoinbaseForm(checked.block.vtx[t])

\* the inputs of the transactions at positions from..to of vtx
InputsOf(vtx, from, to) ==
    UNION {{vtx[t].vin[i].prevout : i \in 1..Len(vtx[t].vin)} : t \in from..to}

\* two transactions of the block that are not of coinbase form spend the
\* same outpoint
HasDoubleSpend(block) ==
    \E t1, t2 \in 2..Len(block.vtx) :
        /\ t1 < t2
        /\ ~CoinbaseForm(block.vtx[t1]) /\ ~CoinbaseForm(block.vtx[t2])
        /\ InputsOf(block.vtx, t1, t1) \cap InputsOf(block.vtx, t2, t2) # {}

\* the view in which the inputs of the transactions before position t, the
\* coinbase excepted, are spent
ViewBefore(block, t) ==
    [o \in DOMAIN utxos \ InputsOf(block.vtx, 2, t - 1) |-> utxos[o]]

\* validate_block reaches the transaction at position t: the ones before it
\* have passed
Reached(block, t) ==
    validate_block_transactions([block EXCEPT !.vtx = SubSeq(@, 1, t - 1)],
                                utxos, checked.height) = "ok"

\* C8: validate_block rejects a block in which two non-coinbase transactions
\* spend the same outpoint; the view against which it validates a transaction
\* is the view in which the inputs of the transactions before it are spent.
C8_DoubleSpendRejected ==
    (checked.kind = "block" /\ checked.result # "pending") =>
        /\ HasDoubleSpend(checked.block) => Rejected
        /\ \A t \in 2..Len(checked.block.vtx) :
               Reached(checked.block, t) => utxos = ViewBefore(checked.block, t)

\* an otherwise sound block whose two transactions spend the same unspent
\* outpoint has been validated
C8_Witness ==
    /\ CheckedBlockSound
    /\ HasDoubleSpend(checked.block)
    /\ \E t1, t2 \in 2..Len(checked.block.vtx) :
           /\ t1 < t2
           /\ InputsOf(checked.block.vtx, t1, t1) = InputsOf(checked.block.vtx, t2, t2)
           /\ InputsOf(checked.block.vtx, t1, t1) \subseteq DOMAIN utxos
    /\ Rejected

\* the input spends a coinbase output of the view less than 100 blocks deep
ImmatureSpend(prevout, block_height) ==
    /\ prevout \in DOMAIN utxos
    /\ utxos[prevout].coinbase
    /\ block_height - utxos[prevout].height < COINBASE_MATURITY

\* C9: no block accepted by validate_block at height h has an input that
\* spends a coinbase output created at a height h0 with h - h0 < 100.
C9_NoImmatureCoinbaseSpend ==
    BlockAccepted =>
        \A o \in InputsOf(checked.block.vtx, 1, Len(checked.block.vtx)) :
            ~ImmatureSpend(o, checked.height)

\* an otherwise sound block with an input that spends an immature coinbase
\* output has been validated
C9_Witness ==
    /\ CheckedBlockSound
    /\ \E o \in InputsOf(checked.block.vtx, 1, Len(checked.block.vtx)) :
           ImmatureSpend(o, checked.height)
    /\ Rejected

\* the values of the outputs of the view that tx spends, and of the outputs
\* it creates
ValueIn(tx) ==
    Sum([i \in 1..Len(tx.vin) |->
            IF tx.vin[i].prevout \in DOMAIN utxos
            THEN utxos[tx.vin[i].prevout].tx_out.nValue ELSE 0])

ValueOut(tx) == Sum([j \in 1..Len(tx.vout) |-> tx.vout[j].nValue])

\* C10: every non-coinbase transaction accepted by validate_transaction, on
\* its own or inside an accepted block, spends outputs worth at least the
\* outputs it creates.
C10_NoNegativeFee ==
    /\ (checked.kind = "tx" /\ checked.result = "ok" /\ ~CoinbaseForm(checked.tx))
           => ValueIn(checked.tx) >= ValueOut(checked.tx)
    /\ BlockAccepted =>
           \A t \in 2..Len(checked.block.vtx) :
               ~CoinbaseForm(checked.block.vtx[t])
                   => ValueIn(checked.block.vtx[t]) >= ValueOut(checked.block.vtx[t])

\* a non-coinbase transaction whose inputs are all unspent and worth less
\* than its outputs has been validated
C10_Witness ==
    /\ checked.kind = "tx"
    /\ ~CoinbaseForm(checked.tx)
    /\ Len(checked.tx.vin) >= 1
    /\ \A i \in 1..Len(checked.tx.vin) : checked.tx.vin[i].prevout \in DOMAIN utxos
    /\ ValueIn(checked.tx) < ValueOut(checked.tx)
    /\ Rejected

\* two inputs of tx name the same outpoint
HasDuplicateInput(tx) ==
    \E i, j \in 1..Len(tx.vin) : i # j /\ tx.vin[i].prevout = tx.vin[j].prevout

\* C30: validate_transaction accepts no transaction that lists an outpoint
\* in two of its inputs, so that no outpoint is counted twice in the input
\* value of an accepted transaction.
C30_DuplicateInputRejected ==
    (checked.kind = "tx" /\ HasDuplicateInput(checked.tx)) => checked.result # "ok"

\* a transaction that lists an unspent outpoint twice, and creates more than
\* the outpoint is worth, has been validated
C30_Witness ==
    /\ checked.kind = "tx"
    /\ HasDuplicateInput(checked.tx)
    /\ \A i \in 1..Len(checked.tx.vin) : checked.tx.vin[i].prevout \in DOMAIN utxos
    /\ utxos[checked.tx.vin[1].prevout].tx_out.nValue < ValueOut(checked.tx)
    /\ Rejected

(***************************************************************************)
(* Properties of the threads.                                              *)
(***************************************************************************)
\* the updates that were applied and left the lock without an error, in the
\* order in which they left it
CommittedOk == SelectSeq(committed, LAMBDA c : c.ok)

\* C11: every callback is called with the blocks in the order in which the
\* updates of those blocks were committed under the state lock.
C11_CallbacksInCommitOrder ==
    \A i \in 1..Len(subscribers) :
        /\ Len(subscribers[i]) <= Len(CommittedOk)
        /\ \A k \in 1..Len(subscribers[i]) : subscribers[i][k] = CommittedOk[k].hash

\* the states between the updates: the state the ChainState was created in
\* and the state every update left behind
SettledStates ==
    {[tip |-> None, utxos |-> {}, mempool |-> {}]}
    \cup {[tip |-> committed[k].tip, utxos |-> committed[k].utxos,
           mempool |-> committed[k].mempool] : k \in 1..Len(committed)}

\* C12: the tip, the UTXO set and the mempool a thread has read through the
\* accessors are those of one state before or after an update, never the tip
\* of one and the UTXO set or the mempool of another.
C12_ReaderSeesOneState ==
    (Reader \in DOMAIN threads /\ threads[Reader].pc = HasRead[3]) =>
        [tip |-> threads[Reader].tip, utxos |-> threads[Reader].utxos,
         mempool |-> threads[Reader].mempool] \in SettledStates

\* the threads that have committed and have yet to call the callback at i
YetToCall(i) == {t \in DOMAIN threads : threads[t].pc = "notify" /\ threads[t].cb <= i}

\* C13: a callback that raises does not keep the other callbacks from being
\* called with the block, update returns normally and the later updates are
\* applied and notified: every callback has been called once for every
\* committed update whose thread has passed it.
C13_RaisingCallbackIsContained ==
    /\ \A t \in DOMAIN threads : threads[t].outcome # "Exception"
    /\ \A i \in 1..Len(subscribers) :
           Len(subscribers[i]) + Cardinality(YetToCall(i)) = Len(CommittedOk)

\* two updates have been committed and notified, the first callback raised
\* both times, the second was called both times and the threads have returned
C13_Witness ==
    /\ Len(CommittedOk) >= 2
    /\ callback_raises(Callbacks[1])
    /\ Len(subscribers[1]) >= 2
    /\ Len(subscribers[2]) >= 2
    /\ \A t \in DOMAIN threads : threads[t].pc = "idle"
    /\ \E t \in DOMAIN threads : threads[t].outcome = "returned"

\* C14: the callbacks are notified of a block only when the update made it
\* the tip of the main chain: at commit time the tip is the node of the block.
C14_NotifiedBlockIsTip ==
    \A k \in 1..Len(CommittedOk) : CommittedOk[k].tip = CommittedOk[k].index

(***************************************************************************)
(* The script interpreter.  A script is its sequence of bytes; a stack     *)
(* element is a Python value, either a bytes object or an int, because the *)
(* comparison opcodes push the ints 0x00 and 0x01.                         *)
(***************************************************************************)
PyBytes(v) == [t |-> "bytes", v |-> v]
PyInt(n) == [t |-> "int", v |-> <<n>>]

OP_0 == 0
OP_PUSHDATA1 == 76
OP_PUSHDATA2 == 77
OP_PUSHDATA4 == 78
OP_1 == 81
OP_16 == 96
OP_VERIFY == 105
OP_DUP == 118
OP_EQUAL == 135
OP_EQUALVERIFY == 136
OP_HASH160 == 169
OP_CHECKSIG == 172
OP_CHECKMULTISIG == 174

MAX_SCRIPT_SIZE == 10000
MAX_STACK_SIZE == 1000
MAX_OPS_PER_SCRIPT == 201

\* data[a:b]
Slice(data, a, b) ==
    LET hi == IF b < Len(data) THEN b ELSE Len(data)
    IN  IF a >= hi THEN <<>> ELSE SubSeq(data, a + 1, hi)

\* int.from_bytes(data, 'little') of a length field; every value above
\* MAX_SCRIPT_SIZE is read as 65536, the caller only compares it with the
\* length of the script
from_bytes(data) ==
    IF \E i \in 3..Len(data) : data[i] # 0 THEN 65536
    ELSE (IF Len(data) >= 1 THEN data[1] ELSE 0)
         + (IF Len(data) >= 2 THEN 256 * data[2] ELSE 0)

\* CScript._parse: the loop from position index on
RECURSIVE parse_from(_, _, _)
parse_from(data, index, ops) ==
    IF index >= Len(data) THEN [error |-> "none", ops |-> ops]
    ELSE
        LET opcode == data[index + 1]
            at == index + 1
        IN  IF opcode <= OP_PUSHDATA4
            THEN IF opcode = OP_PUSHDATA1 /\ at >= Len(data)
                 THEN [error |-> "IndexError", ops |-> ops]
                 ELSE
                     LET size == IF opcode < OP_PUSHDATA1 THEN opcode
                                 ELSE IF opcode = OP_PUSHDATA1 THEN data[at + 1]
                                 ELSE IF opcode = OP_PUSHDATA2
                                      THEN from_bytes(Slice(data, at, at + 2))
                                 ELSE from_bytes(Slice(data, at, at + 4))
                         start == IF opcode < OP_PUSHDATA1 THEN at
                                  ELSE IF opcode = OP_PUSHDATA1 THEN at + 1
                                  ELSE IF opcode = OP_PUSHDATA2 THEN at + 2
                                  ELSE at + 4
                     IN  IF start + size > Len(data)
                         THEN [error |-> "ValueError", ops |-> ops]
                         ELSE parse_from(data, start + size,
                                  Append(ops, PyBytes(Slice(data, start, start + size))))
            ELSE parse_from(data, at, Append(ops, PyInt(opcode)))

\* CScript(data): the constructor raises, or the object has data and ops
ParsedScript(value) ==
    IF value.t = "int" THEN [error |-> "TypeError", data |-> <<>>, ops |-> <<>>]
    ELSE IF Len(value.v) > MAX_SCRIPT_SIZE
         THEN [error |-> "ValueError", data |-> value.v, ops |-> <<>>]
    ELSE LET parsed == parse_from(value.v, 0, <<>>)
         IN  [error |-> parsed.error, data |-> value.v, ops |-> parsed.ops]

\* a digest of n bytes; the checksum stands for the compression function
RECURSIVE Checksum(_, _)
Checksum(data, acc) ==
    IF data = <<>> THEN acc
    ELSE Checksum(Tail(data), (acc * 31 + Head(data) + 1) % 65521)

Digest(data, n) ==
    LET c == Checksum(data, n) IN [j \in 1..n |-> ((c + j) * (j + 13)) % 256]

sha256(data) == Digest(data, 32)
ripemd160(data) == Digest(data, 20)

\* decode_num; a value outside -1..255 is read as -1 or 256, the callers
\* only compare it with 0, with 20 and with a count of at most 20
decode_num(item) ==
    IF item.t = "int"
    THEN IF item.v[1] = 0 THEN [error |-> "none", n |-> 0]
         ELSE [error |-> "TypeError", n |-> 0]
    ELSE LET data == item.v
         IN  IF data = <<>> THEN [error |-> "none", n |-> 0]
             ELSE IF data[Len(data)] >= 128 THEN [error |-> "none", n |-> -1]
             ELSE IF \E i \in 2..Len(data) : data[i] # 0 THEN [error |-> "none", n |-> 256]
             ELSE [error |-> "none", n |-> data[1]]

\* verify_signature: hashlib is not a name of the module, so the call of
\* vk.verify raises NameError when the import of ecdsa has not already
\* raised, and the bare except returns False
verify_signature(pubkey, sig, sighash) == FALSE

\* signature_hash: the exception raised, or the digest
signature_hash(tx, input_index, sighash_type) ==
    IF input_index < 0 \/ input_index >= Len(tx.vin)
    THEN [error |-> "ValueError", digest |-> <<>>]
    ELSE IF ~HasAttr(tx.vin[input_index + 1], "nSequence")
    THEN [error |-> "AttributeError", digest |-> <<>>]
    ELSE IF (sighash_type % 32) \notin {1, 2, 3}
    THEN [error |-> "ValueError", digest |-> <<>>]
    ELSE IF (sighash_type % 32) = 3 /\ input_index >= Len(tx.vout)
    THEN [error |-> "none", digest |-> [j \in 1..32 |-> IF j = 32 THEN 1 ELSE 0]]
    ELSE IF ~HasAttr(tx, "nLockTime")
    THEN [error |-> "AttributeError", digest |-> <<>>]
    ELSE [error |-> "none", digest |-> Digest(<<input_index, sighash_type>>, 32)]

\* the outcome of one opcode: status is "ok", "continue" (the stack size
\* check is skipped) or the name of the exception raised
Outcome(status, stack) == [status |-> status, stack |-> stack]

TopOf(stack) == stack[Len(stack)]
Drop(stack, k) == SubSeq(stack, 1, Len(stack) - k)

\* [stack.pop() for _ in range(k)]
Popped(stack, k) == [i \in 1..k |-> stack[Len(stack) + 1 - i]]

op_checksig(stack, tx, input_index) ==
    IF Len(stack) < 2 THEN Outcome("ScriptExecutionError", stack)
    ELSE
        LET pubkey == stack[Len(stack)]
            sig == stack[Len(stack) - 1]
            rest == Drop(stack, 2)
        IN  IF sig.t = "int" THEN Outcome("TypeError", rest)
            ELSE IF Len(sig.v) < 1 THEN Outcome("continue", Append(rest, PyInt(0)))
            ELSE
                LET sighash_type == sig.v[Len(sig.v)]
                    der_sig == Slice(sig.v, 0, Len(sig.v) - 1)
                    sighash == signature_hash(tx, input_index, sighash_type)
                IN  IF sighash.error = "ValueError"
                    THEN Outcome("continue", Append(rest, PyInt(0)))
                    ELSE IF sighash.error # "none" THEN Outcome(sighash.error, rest)
                    ELSE IF ~verify_signature(pubkey, der_sig, sighash.digest)
                    THEN Outcome("ok", Append(rest, PyInt(0)))
                    ELSE Outcome("ok", Append(rest, PyInt(1)))

\* the signature validation loop of OP_CHECKMULTISIG: the exception raised
\* by sig[-1], or the number of valid signatures
RECURSIVE count_valid(_, _, _, _, _)
count_valid(sigs, k, pubkeys_remaining, tx, input_index) ==
    IF k > Len(sigs) THEN [error |-> "none", valid_sigs |-> 0]
    ELSE
        LET sig == sigs[k]
        IN  IF sig.v = <<>> \/ sig = PyInt(0)
            THEN count_valid(sigs, k + 1, pubkeys_remaining, tx, input_index)
            ELSE IF sig.t = "int" THEN [error |-> "TypeError", valid_sigs |-> 0]
            ELSE
                LET sighash == signature_hash(tx, input_index, sig.v[Len(sig.v)])
                    der_sig == Slice(sig.v, 0, Len(sig.v) - 1)
                    found == {i \in 1..Len(pubkeys_remaining) :
                                 /\ sighash.error = "none"
                                 /\ verify_signature(pubkeys_remaining[i], der_sig,
                                                     sighash.digest)}
                IN  IF found = {}
                    THEN count_valid(sigs, k + 1, pubkeys_remaining, tx, input_index)
                    ELSE
                        LET i == CHOOSE j \in found : \A other \in found : other <= j
                            remaining == [j \in 1..(Len(pubkeys_remaining) - 1) |->
                                             IF j < i THEN pubkeys_remaining[j]
                                             ELSE pubkeys_remaining[j + 1]]
                            later == count_valid(sigs, k + 1, remaining, tx, input_index)
                        IN  [later EXCEPT !.valid_sigs = @ + 1]

\* the push that ends OP_CHECKMULTISIG, or the exception of the loop
multisig_result(counted, m, stack) ==
    IF counted.error # "none" THEN Outcome(counted.error, stack)
    ELSE Outcome("ok", Append(stack, IF counted.valid_sigs >= m THEN PyInt(1) ELSE PyInt(0)))

op_checkmultisig(stack, tx, input_index) ==
    IF Len(stack) < 1 THEN Outcome("ScriptExecutionError", stack)
    ELSE
        LET n == decode_num(TopOf(stack))
            s1 == Drop(stack, 1)
        IN  IF n.error # "none" THEN Outcome(n.error, s1)
            ELSE IF n.n < 0 \/ n.n > 20 THEN Outcome("ScriptExecutionError", s1)
            ELSE IF Len(s1) < n.n THEN Outcome("ScriptExecutionError", s1)
            ELSE
                LET pubkeys == Popped(s1, n.n)
                    s2 == Drop(s1, n.n)
                IN  IF Len(s2) < 1 THEN Outcome("ScriptExecutionError", s2)
                    ELSE
                        LET m == decode_num(TopOf(s2))
                            s3 == Drop(s2, 1)
                        IN  IF m.error # "none" THEN Outcome(m.error, s3)
                            ELSE IF m.n < 0 \/ m.n > n.n
                            THEN Outcome("ScriptExecutionError", s3)
                            ELSE IF Len(s3) < m.n THEN Outcome("ScriptExecutionError", s3)
                            ELSE
                                LET sigs == Popped(s3, m.n)
                                    s4 == Drop(s3, m.n)
                                IN  IF Len(s4) < 1 THEN Outcome("ScriptExecutionError", s4)
                                    ELSE
                                        multisig_result(count_valid(sigs, 1, pubkeys,
                                                                    tx, input_index),
                                                        m.n, Drop(s4, 1))

\* the chain of if and elif in the loop of eval_script; an integer opcode
\* that no branch names falls through all of them
execute_op(op, stack, tx, input_index) ==
    IF op = PyInt(OP_DUP)
    THEN IF stack = <<>> THEN Outcome("ScriptExecutionError", stack)
         ELSE Outcome("ok", Append(stack, TopOf(stack)))
    ELSE IF op = PyInt(OP_HASH160)
    THEN IF stack = <<>> THEN Outcome("ScriptExecutionError", stack)
         ELSE IF TopOf(stack).t = "int" THEN Outcome("TypeError", Drop(stack, 1))
         ELSE Outcome("ok", Append(Drop(stack, 1),
                                   PyBytes(ripemd160(sha256(TopOf(stack).v)))))
    ELSE IF op = PyInt(OP_0) THEN Outcome("ok", Append(stack, PyBytes(<<>>)))
    ELSE IF op.t = "int" /\ OP_1 <= op.v[1] /\ op.v[1] <= OP_16
    THEN Outcome("ok", Append(stack, PyBytes(<<op.v[1] - 80>>)))
    ELSE IF op = PyInt(OP_CHECKSIG) THEN op_checksig(stack, tx, input_index)
    ELSE IF op = PyInt(OP_CHECKMULTISIG) THEN op_checkmultisig(stack, tx, input_index)
    ELSE IF op = PyInt(OP_EQUAL)
    THEN IF Len(stack) < 2 THEN Outcome("ScriptExecutionError", stack)
         ELSE Outcome("ok", Append(Drop(stack, 2),
                  IF stack[Len(stack)] = stack[Len(stack) - 1] THEN PyInt(1) ELSE PyInt(0)))
    ELSE IF op = PyInt(OP_VERIFY)
    THEN IF stack = <<>> THEN Outcome("ScriptExecutionError", stack)
         ELSE IF TopOf(stack) = PyInt(0) THEN Outcome("ScriptExecutionError", Drop(stack, 1))
         ELSE Outcome("ok", Drop(stack, 1))
    ELSE IF op = PyInt(OP_EQUALVERIFY)
    THEN IF Len(stack) < 2 THEN Outcome("ScriptExecutionError", stack)
         ELSE IF stack[Len(stack)] # stack[Len(stack) - 1]
         THEN Outcome("ScriptExecutionError", Drop(stack, 2))
         ELSE Outcome("ok", Drop(stack, 2))
    ELSE IF op.t = "bytes" THEN Outcome("ok", Append(stack, op))
    ELSE Outcome("ok", stack)

\* eval_script from the k-th op on: result is "True", "False" or the name of
\* the exception that leaves the function; stack is the stack it leaves.
\* after_op is the rest of the loop body once the op has been executed.
RECURSIVE eval_from(_, _, _, _, _, _)
RECURSIVE after_op(_, _, _, _, _, _)
after_op(ops, k, count, done, tx, input_index) ==
    IF done.status = "ScriptExecutionError"
    THEN [result |-> "False", stack |-> done.stack]
    ELSE IF done.status \notin {"ok", "continue"}
    THEN [result |-> done.status, stack |-> done.stack]
    ELSE IF done.status = "ok" /\ Len(done.stack) > MAX_STACK_SIZE
    THEN [result |-> "False", stack |-> done.stack]
    ELSE eval_from(ops, k + 1, count, done.stack, tx, input_index)

counted_op(ops, k, count, stack, tx, input_index) ==
    IF count > MAX_OPS_PER_SCRIPT THEN [result |-> "False", stack |-> stack]
    ELSE after_op(ops, k, count, execute_op(ops[k], stack, tx, input_index),
                  tx, input_index)

eval_from(ops, k, op_count, stack, tx, input_index) ==
    IF k > Len(ops) THEN [result |-> "True", stack |-> stack]
    ELSE counted_op(ops, k, IF ops[k].t = "int" THEN op_count + 1 ELSE op_count,
                    stack, tx, input_index)

eval_script(ops, stack, tx, input_index, script_pubkey) ==
    eval_from(ops, 1, 0, stack, tx, input_index)

is_p2sh(script_pubkey) ==
    LET ops == script_pubkey.ops
    IN  /\ Len(ops) = 3
        /\ ops[1] = PyInt(OP_HASH160)
        /\ ops[2].t = "bytes" /\ Len(ops[2].v) = 20
        /\ ops[3] = PyInt(OP_EQUAL)

\* bool(stack) and stack[-1] != b'\x00'
final_check(stack) ==
    IF stack # <<>> /\ TopOf(stack) # PyBytes(<<0>>) THEN "True" ELSE "False"

\* the result of a script that ran to its end
finished(run) ==
    IF run.result # "True" THEN run
    ELSE [result |-> final_check(run.stack), stack |-> run.stack]

\* verify_script, the P2SH branch after scriptPubKey has run: second is its
\* outcome, stack_before_p2sh the stack scriptSig left
p2sh_redeem(redeem_script, second, stack_before_p2sh, tx, input_index) ==
    IF second.result # "True" THEN second
    ELSE IF second.stack = <<>> \/ TopOf(second.stack) = PyBytes(<<0>>)
    THEN [result |-> "False", stack |-> second.stack]
    ELSE finished(eval_script(redeem_script.ops, Drop(stack_before_p2sh, 1), tx,
                              input_index, redeem_script))

\* verify_script, the P2SH branch: redeem_script is CScript(stack[-1])
p2sh_branch(redeem_script, script_pubkey, stack, tx, input_index) ==
    IF redeem_script.error # "none"
    THEN [result |-> redeem_script.error, stack |-> stack]
    ELSE p2sh_redeem(redeem_script,
                     eval_script(script_pubkey.ops, stack, tx, input_index, script_pubkey),
                     stack, tx, input_index)

\* verify_script after scriptSig has run: first is its outcome
after_script_sig(first, script_pubkey, tx, input_index) ==
    IF first.result # "True" THEN first
    ELSE IF is_p2sh(script_pubkey)
    THEN IF first.stack = <<>> THEN [result |-> "False", stack |-> <<>>]
         ELSE p2sh_branch(ParsedScript(TopOf(first.stack)), script_pubkey,
                          first.stack, tx, input_index)
    ELSE finished(eval_script(script_pubkey.ops, first.stack, tx, input_index,
                              script_pubkey))

\* verify_script: result is what the call returns ("True", "False") or the
\* exception that leaves it, stack the stack the last script executed left
verify_script(script_sig, script_pubkey, tx, input_index) ==
    IF Len(script_sig.data) > MAX_SCRIPT_SIZE \/ Len(script_pubkey.data) > MAX_SCRIPT_SIZE
    THEN [result |-> "False", stack |-> <<>>]
    ELSE after_script_sig(eval_script(script_sig.ops, <<>>, tx, input_index, script_pubkey),
                          script_pubkey, tx, input_index)

(***************************************************************************)
(* verify_script as a function: the scripts and the input index are chosen *)
(* at the start, one call is made.                                         *)
(***************************************************************************)
\* a direct push of at most 75 bytes
Push(data) == <<Len(data)>> \o data

OP_NOP == 97
OP_RESERVED_FF == 255

SigBytes == <<48, 7, 1>>
PubKeyBytes == <<2, 9>>
RedeemTrue == <<OP_1>>
RedeemEqual == Push(<<1>>) \o <<OP_EQUAL>>

P2PKH(pubkey) ==
    <<OP_DUP, OP_HASH160>> \o Push(ripemd160(sha256(pubkey))) \o <<OP_EQUALVERIFY, OP_CHECKSIG>>

P2SH(redeem) == <<OP_HASH160>> \o Push(ripemd160(sha256(redeem))) \o <<OP_EQUAL>>

\* the signature the key numbered k makes, with SIGHASH_ALL as its last
\* byte, and the public key numbered k
SigOf(k) == <<48, k, 1>>
KeyOf(k) == <<2, k>>

RECURSIVE PushAll(_)
\* the pushes of the elements of the list, one after the other
PushAll(items) == IF items = <<>> THEN <<>> ELSE Push(Head(items)) \o PushAll(Tail(items))

\* m-of-n spends: the keys of the locking script in its order, and the keys
\* that made the signatures of the unlocking script in its order
MultisigCases ==
    {[keys |-> <<1>>, signers |-> <<1>>],
     [keys |-> <<1, 2>>, signers |-> <<1, 2>>],
     [keys |-> <<1, 2>>, signers |-> <<2, 1>>],
     [keys |-> <<1, 2>>, signers |-> <<1, 1>>],
     [keys |-> <<1, 2>>, signers |-> <<2>>],
     [keys |-> <<1>>, signers |-> <<>>]}

\* the opcode that pushes the number k
NumOp(k) == IF k = 0 THEN OP_0 ELSE OP_1 - 1 + k

\* OP_0 <sig> ... <sig>
MultisigScriptSig(c) ==
    <<OP_0>> \o PushAll([i \in 1..Len(c.signers) |-> SigOf(c.signers[i])])

\* OP_m <key> ... <key> OP_n OP_CHECKMULTISIG
MultisigScriptPubKey(c) ==
    <<NumOp(Len(c.signers))>> \o PushAll([i \in 1..Len(c.keys) |-> KeyOf(c.keys[i])])
    \o <<NumOp(Len(c.keys)), OP_CHECKMULTISIG>>

ScriptSigs ==
    {MultisigScriptSig(c) : c \in MultisigCases} \cup
    { <<>>,
      Push(<<1>>),
      Push(<<2>>),
      Push(<<0>>),
      <<OP_0>>,
      <<OP_NOP>>,
      <<OP_1, OP_1, OP_EQUAL>>,
      Push(SigBytes) \o Push(PubKeyBytes),
      Push(<<>> ) \o Push(PubKeyBytes),
      Push(RedeemTrue),
      Push(<<2>>) \o Push(RedeemEqual),
      Push(<<OP_PUSHDATA1>>) }

ScriptPubKeys ==
    {MultisigScriptPubKey(c) : c \in MultisigCases} \cup
    { Push(<<2>>) \o <<OP_EQUAL>>,
      <<OP_1>>,
      <<OP_1, OP_NOP>>,
      <<OP_RESERVED_FF>>,
      <<OP_VERIFY>>,
      <<OP_DUP, OP_EQUALVERIFY>>,
      <<OP_HASH160>>,
      <<OP_CHECKSIG>>,
      <<OP_0, OP_0, OP_CHECKMULTISIG>>,
      <<OP_1, OP_CHECKMULTISIG>>,
      P2PKH(PubKeyBytes),
      P2SH(RedeemTrue),
      P2SH(RedeemEqual) }

\* the spending transaction: one input, one output
ScriptTx == Spend("sA", OutPay, 20)

InputIndexes == {0, 1}

ScriptRequests ==
    {[kind |-> "script", script_sig |-> a, script_pubkey |-> b, input_index |-> i,
      result |-> "pending", stack |-> <<>>] :
        a \in ScriptSigs, b \in ScriptPubKeys, i \in InputIndexes}

InitScript ==
    /\ nodes = <<>>
    /\ genesis = None
    /\ tip = None
    /\ block_map = EmptyDict
    /\ utxos = EmptyDict
    /\ spent_utxos = EmptyDict
    /\ mempool = EmptyDict
    /\ ibd_active = FALSE
    /\ active_peer = "none"
    /\ pending_blocks = <<>>
    /\ origin = <<>>
    /\ last = [op |-> "init", result |-> "ok"]
    /\ checked \in ScriptRequests
    /\ seen_messages = {}
    /\ NoThreads
    /\ NoRecords
    /\ ClockStarts
    /\ NoConnections

\* verify_script(script_sig, script_pubkey, tx, input_index)
VerifyScript ==
    /\ checked.kind = "script"
    /\ checked.result = "pending"
    /\ LET out == verify_script(ParsedScript(PyBytes(checked.script_sig)),
                                ParsedScript(PyBytes(checked.script_pubkey)),
                                ScriptTx, checked.input_index)
       IN  checked' = [checked EXCEPT !.result = out.result, !.stack = out.stack]
    /\ UNCHANGED <<nodes, genesis, tip, block_map, utxos, spent_utxos, mempool,
                   ibd_active, active_peer, pending_blocks, origin, last,
                   seen_messages, thread_vars, record_vars, clock_vars, conn_vars>>

NextScript == VerifyScript

SpecScript == InitScript /\ [][NextScript]_vars

(***************************************************************************)
(* interpreter.py: signature_hash as a function of its arguments.          *)
(***************************************************************************)
SIGHASH_ALL == 1
SIGHASH_NONE == 2
SIGHASH_SINGLE == 3
SIGHASH_ANYONECANPAY == 128

\* CScript(b"")
EmptyScript == CScript("empty", "", 0)

\* CTxIn.__init__(self, prevout, scriptSig): there is no parameter nSequence
CTxIn_accepts_nSequence == FALSE

\* signature_hash, "Prepare inputs": the inputs kept, each with an empty
\* script
prepared_vin(tx, input_index, sighash_type) ==
    IF (sighash_type \div SIGHASH_ANYONECANPAY) % 2 = 1
    THEN <<CTxIn(tx.vin[input_index + 1].prevout, EmptyScript)>>
    ELSE [k \in 1..Len(tx.vin) |-> CTxIn(tx.vin[k].prevout, EmptyScript)]

\* signature_hash, "Restore scriptSig for current input"
restored_vin(vin, input_index, script_pubkey) ==
    IF input_index < Len(vin)
    THEN [vin EXCEPT ![input_index + 1].scriptSig = script_pubkey]
    ELSE vin

\* signature_hash up to the transaction copy: the exception raised, or the
\* inputs of the copy that is serialized and hashed
signature_hash_copy(tx, input_index, script_pubkey, sighash_type) ==
    IF input_index < 0 \/ input_index >= Len(tx.vin)
    THEN [error |-> "ValueError", vin |-> <<>>]
    ELSE IF ~HasAttr(tx.vin[IF (sighash_type \div SIGHASH_ANYONECANPAY) % 2 = 1
                            THEN input_index + 1 ELSE 1], "nSequence")
    THEN [error |-> "AttributeError", vin |-> <<>>]
    ELSE IF ~CTxIn_accepts_nSequence
    THEN [error |-> "TypeError", vin |-> <<>>]
    ELSE IF (sighash_type % 32) \notin {SIGHASH_ALL, SIGHASH_NONE, SIGHASH_SINGLE}
    THEN [error |-> "ValueError", vin |-> <<>>]
    ELSE [error |-> "none",
          vin |-> restored_vin(prepared_vin(tx, input_index, sighash_type),
                               input_index, script_pubkey)]

\* the transactions whose inputs are signed: one to three inputs, two outputs
SighashTx(k) ==
    CTransaction("s", [i \in 1..k |-> CTxIn(COutPoint("prev", i - 1), SigScript("alice"))],
                 <<CTxOut(20, KeyScript("bob")), CTxOut(5, KeyScript("alice"))>>)

\* the hash types of the calls
SighashTypes == {0, 1, 2, 3, 4, 129, 130, 131}

SighashRequests ==
    {[kind |-> "sighash", tx |-> SighashTx(k), input_index |-> i,
      script_pubkey |-> KeyScript("alice"), sighash_type |-> type,
      result |-> "pending", vin |-> <<>>] :
        k \in 1..3, i \in 0..3, type \in SighashTypes}

InitSighash ==
    /\ nodes = <<>>
    /\ genesis = None
    /\ tip = None
    /\ block_map = EmptyDict
    /\ utxos = EmptyDict
    /\ spent_utxos = EmptyDict
    /\ mempool = EmptyDict
    /\ ibd_active = FALSE
    /\ active_peer = "none"
    /\ pending_blocks = <<>>
    /\ origin = <<>>
    /\ last = [op |-> "init", result |-> "ok"]
    /\ checked \in SighashRequests
    /\ seen_messages = {}
    /\ NoThreads
    /\ NoRecords
    /\ ClockStarts
    /\ NoConnections

\* signature_hash(tx, input_index, script_pubkey, sighash_type)
SignatureHash ==
    /\ checked.kind = "sighash"
    /\ checked.result = "pending"
    /\ LET out == signature_hash_copy(checked.tx, checked.input_index,
                                      checked.script_pubkey, checked.sighash_type)
       IN  checked' = [checked EXCEPT !.result = out.error, !.vin = out.vin]
    /\ UNCHANGED <<nodes, genesis, tip, block_map, utxos, spent_utxos, mempool,
                   ibd_active, active_peer, pending_blocks, origin, last,
                   seen_messages, thread_vars, record_vars, clock_vars, conn_vars>>

NextSighash == SignatureHash

SpecSighash == InitSighash /\ [][NextSighash]_vars

(***************************************************************************)
(* serialize.py: compact_size and read_compact_size.  An integer of up to  *)
(* 64 bits is the record of its sign and of its four 16-bit limbs, the     *)
(* lowest first; bytes are lists of numbers in 0..255.                     *)
(***************************************************************************)
\* the integer with the limbs, and its negative
Int64(l0, l1, l2, l3) == [neg |-> FALSE, limbs |-> <<l0, l1, l2, l3>>]
Minus(value) == [value EXCEPT !.neg = TRUE]

\* value < 0xfd, value <= 0xfd, value <= 0xffff and value <= 0xffffffff for a
\* value that is not negative
at_most_fd(value) ==
    value.limbs[1] <= 253 /\ \A k \in 2..4 : value.limbs[k] = 0
below_fd(value) ==
    value.limbs[1] < 253 /\ \A k \in 2..4 : value.limbs[k] = 0
at_most_ffff(value) == \A k \in 2..4 : value.limbs[k] = 0
at_most_ffffffff(value) == \A k \in 3..4 : value.limbs[k] = 0

\* value.to_bytes(length, 'little')
to_bytes(value, length) ==
    [i \in 1..length |->
        (value.limbs[(i + 1) \div 2] \div (IF i % 2 = 1 THEN 1 ELSE 256)) % 256]

\* int.from_bytes(data, 'little')
int_from_bytes(data) ==
    LET byte(i) == IF i <= Len(data) THEN data[i] ELSE 0
    IN  Int64(byte(1) + 256 * byte(2), byte(3) + 256 * byte(4),
              byte(5) + 256 * byte(6), byte(7) + 256 * byte(8))

\* compact_size: the exception raised, or the bytes
compact_size(value) ==
    IF value.neg THEN [error |-> "ValueError", bytes |-> <<>>]
    ELSE IF below_fd(value) THEN [error |-> "none", bytes |-> to_bytes(value, 1)]
    ELSE IF at_most_ffff(value)
    THEN [error |-> "none", bytes |-> <<253>> \o to_bytes(value, 2)]
    ELSE IF at_most_ffffffff(value)
    THEN [error |-> "none", bytes |-> <<254>> \o to_bytes(value, 4)]
    ELSE [error |-> "none", bytes |-> <<255>> \o to_bytes(value, 8)]

\* stream.read(n) on a stream at its start, and the read that follows the
\* read of the first byte
read(stream, n) == SubSeq(stream, 1, IF Len(stream) < n THEN Len(stream) ELSE n)
read_next(stream, n) == read(Tail(stream), n)

\* read_compact_size: the exception raised, or the integer
read_compact_size(stream) ==
    LET prefix == read(stream, 1)
        width == IF prefix[1] = 253 THEN 2 ELSE IF prefix[1] = 254 THEN 4 ELSE 8
    IN  IF prefix = <<>> THEN [error |-> "ValueError", value |-> Int64(0, 0, 0, 0)]
        ELSE IF prefix[1] < 253
        THEN [error |-> "none", value |-> Int64(prefix[1], 0, 0, 0)]
        ELSE IF Len(read_next(stream, width)) # width
        THEN [error |-> "ValueError", value |-> Int64(0, 0, 0, 0)]
        ELSE [error |-> "none", value |-> int_from_bytes(read_next(stream, width))]

\* the integers encoded: the ends of the four ranges and values inside them
CompactValues ==
    {Int64(l0, 0, 0, 0) : l0 \in {0, 1, 127, 128, 252, 253, 254, 255, 256, 258,
                                  4660, 65534, 65535}}
    \cup {Int64(l0, l1, 0, 0) : l0 \in {0, 1, 65535}, l1 \in {1, 255, 4660, 65535}}
    \cup {Int64(l0, l1, l2, l3) : l0 \in {0, 65535}, l1 \in {0, 4660},
                                  l2 \in {0, 1, 65535}, l3 \in {0, 1, 255, 65535}}

\* the calls: an integer or its negative is encoded and the bytes are
\* decoded, or the first cut bytes of an encoding are decoded
CompactRequests ==
    {[kind |-> "compact", value |-> v, cut |-> -1, result |-> "pending",
      bytes |-> <<>>, decoded |-> Int64(0, 0, 0, 0)] :
        v \in CompactValues \cup {Minus(w) : w \in CompactValues}}
    \cup {[kind |-> "compact", value |-> v, cut |-> cut, result |-> "pending",
           bytes |-> <<>>, decoded |-> Int64(0, 0, 0, 0)] :
        v \in CompactValues, cut \in 0..8}

InitCompact ==
    /\ nodes = <<>>
    /\ genesis = None
    /\ tip = None
    /\ block_map = EmptyDict
    /\ utxos = EmptyDict
    /\ spent_utxos = EmptyDict
    /\ mempool = EmptyDict
    /\ ibd_active = FALSE
    /\ active_peer = "none"
    /\ pending_blocks = <<>>
    /\ origin = <<>>
    /\ last = [op |-> "init", result |-> "ok"]
    /\ checked \in CompactRequests
    /\ seen_messages = {}
    /\ NoThreads
    /\ NoRecords
    /\ ClockStarts
    /\ NoConnections

\* what a call of the two functions leaves alone
CompactLeaves ==
    UNCHANGED <<nodes, genesis, tip, block_map, utxos, spent_utxos, mempool,
                ibd_active, active_peer, pending_blocks, origin, last,
                seen_messages, thread_vars, record_vars, clock_vars, conn_vars>>

\* read_compact_size(io.BytesIO(compact_size(value)))
EncodeAndDecode ==
    /\ checked.kind = "compact"
    /\ checked.result = "pending"
    /\ checked.cut = -1
    /\ LET encoded == compact_size(checked.value)
           decoded == read_compact_size(encoded.bytes)
       IN  checked' = IF encoded.error # "none"
                      THEN [checked EXCEPT !.result = encoded.error]
                      ELSE [checked EXCEPT !.result = decoded.error,
                                           !.bytes = encoded.bytes,
                                           !.decoded = decoded.value]
    /\ CompactLeaves

\* read_compact_size on the first cut bytes of compact_size(value)
DecodeCut ==
    /\ checked.kind = "compact"
    /\ checked.result = "pending"
    /\ checked.cut >= 0
    /\ LET stream == read(compact_size(checked.value).bytes, checked.cut)
           decoded == read_compact_size(stream)
       IN  checked' = [checked EXCEPT !.result = decoded.error, !.bytes = stream,
                                      !.decoded = decoded.value]
    /\ CompactLeaves

NextCompact ==
    \/ EncodeAndDecode
    \/ DecodeCut

SpecCompact == InitCompact /\ [][NextCompact]_vars

(***************************************************************************)
(* bignum.py at the full width of a target.  A target is the list of its   *)
(* bytes, the lowest first and the highest other than 0; 0 is the empty    *)
(* list.  A compact value has at most 30 bits and is a number.             *)
(***************************************************************************)
RECURSIVE Normal(_)
\* the list without the zero bytes at its high end
Normal(bytes) ==
    IF bytes = <<>> THEN <<>>
    ELSE IF bytes[Len(bytes)] = 0 THEN Normal(SubSeq(bytes, 1, Len(bytes) - 1))
    ELSE bytes

\* the number with at most three bytes, and the three bytes of a number
NumberOf(bytes) ==
    LET byte(i) == IF i <= Len(bytes) THEN bytes[i] ELSE 0
    IN  byte(1) + 256 * byte(2) + 65536 * byte(3)
BytesOf(n) == <<n % 256, (n \div 256) % 256, (n \div 65536) % 256>>

\* target & ((1 << 256) - 1)
cap_256(bytes) == Normal(SubSeq(bytes, 1, IF Len(bytes) < 32 THEN Len(bytes) ELSE 32))

\* set_compact at the width of the source
set_compact_256(n_compact) ==
    LET n_size == n_compact \div 2^24
        coefficient == n_compact % 2^23
    IN  IF n_size <= 3
        THEN cap_256(Normal(BytesOf(coefficient \div 2^(8 * (3 - n_size)))))
        ELSE cap_256(Normal([i \in 1..(n_size - 3) |-> 0] \o BytesOf(coefficient)))

\* a test that never finds the high bit set
high_bit_ignored(coefficient) == FALSE

\* get_compact: coefficient >= 0x00800000
high_bit_set(coefficient) == coefficient >= 8388608

\* get_compact
get_compact(target) ==
    LET n_size == Len(target)
        coefficient == IF n_size <= 3
                       THEN NumberOf(target) * 2^(8 * (3 - n_size))
                       ELSE NumberOf(SubSeq(target, n_size - 2, n_size))
    IN  IF target = <<>> THEN 0
        ELSE IF high_bit_set(coefficient)
        THEN (n_size + 1) * 2^24 + ((coefficient \div 256) % 2^23)
        ELSE n_size * 2^24 + (coefficient % 2^23)

\* the targets: every length up to 32 bytes, with the three high bytes and
\* the bytes under them drawn from the ends and the middle of their range
Targets ==
    {<<>>} \cup
    {Normal([i \in 1..len |-> IF i = len THEN top
                              ELSE IF i = len - 1 THEN second
                              ELSE IF i = len - 2 THEN third
                              ELSE fill]) :
        len \in 1..32, top \in {1, 127, 128, 255}, second \in {0, 18, 255},
        third \in {0, 52, 255}, fill \in {0, 255}}

BitsRequests ==
    {[kind |-> "bits", target |-> t, result |-> "pending", bits |-> 0,
      back |-> <<>>, again |-> 0] : t \in Targets}

InitBits ==
    /\ nodes = <<>>
    /\ genesis = None
    /\ tip = None
    /\ block_map = EmptyDict
    /\ utxos = EmptyDict
    /\ spent_utxos = EmptyDict
    /\ mempool = EmptyDict
    /\ ibd_active = FALSE
    /\ active_peer = "none"
    /\ pending_blocks = <<>>
    /\ origin = <<>>
    /\ last = [op |-> "init", result |-> "ok"]
    /\ checked \in BitsRequests
    /\ seen_messages = {}
    /\ NoThreads
    /\ NoRecords
    /\ ClockStarts
    /\ NoConnections

\* the fields of the request after bits = get_compact(target),
\* back = set_compact(bits) and again = get_compact(back)
converted(request, bits) ==
    [request EXCEPT !.result = "done", !.bits = bits,
                    !.back = set_compact_256(bits),
                    !.again = get_compact(set_compact_256(bits))]

\* get_compact(set_compact(get_compact(target)))
ConvertBits ==
    /\ checked.kind = "bits"
    /\ checked.result = "pending"
    /\ checked' = converted(checked, get_compact(checked.target))
    /\ CompactLeaves

NextBits == ConvertBits

SpecBits == InitBits /\ [][NextBits]_vars

(***************************************************************************)
(* Properties of the script interpreter.                                   *)
(***************************************************************************)
ScriptDone == checked.kind = "script" /\ checked.result # "pending"

UnlockingScript == ParsedScript(PyBytes(checked.script_sig))
LockingScript == ParsedScript(PyBytes(checked.script_pubkey))

\* a value is true when it is neither empty nor all zero
Truthy(item) == \E i \in 1..Len(item.v) : item.v[i] # 0

\* the stack scriptSig leaves, whose top is the redeem script of a P2SH spend
AfterScriptSig ==
    eval_script(UnlockingScript.ops, <<>>, ScriptTx, checked.input_index, LockingScript).stack

RedeemHashMatches ==
    /\ AfterScriptSig # <<>>
    /\ TopOf(AfterScriptSig).t = "bytes"
    /\ ripemd160(sha256(TopOf(AfterScriptSig).v)) = LockingScript.ops[2].v

\* C19: verify_script returns True only if the stack left by the last script
\* executed is non-empty and its top element is true (neither empty nor all
\* zero), and, for a P2SH scriptPubKey, only if the hash of the redeem script
\* matches; a final top that is the false result of OP_EQUAL or OP_CHECKSIG
\* gives False.
C19_TrueOnlyOnTruthyTop ==
    (ScriptDone /\ checked.result = "True") =>
        /\ checked.stack # <<>>
        /\ Truthy(TopOf(checked.stack))
        /\ is_p2sh(LockingScript) => RedeemHashMatches

Supported ==
    {OP_0, OP_DUP, OP_HASH160, OP_EQUAL, OP_EQUALVERIFY, OP_VERIFY, OP_CHECKSIG,
     OP_CHECKMULTISIG} \cup (OP_1..OP_16)

HasUnsupported(script) ==
    \E i \in 1..Len(script.ops) :
        script.ops[i].t = "int" /\ script.ops[i].v[1] \notin Supported

\* C20: when scriptSig or scriptPubKey contains an opcode outside the
\* supported set, verify_script returns False.
C20_UnsupportedOpcodeFails ==
    (ScriptDone /\ (HasUnsupported(UnlockingScript) \/ HasUnsupported(LockingScript))) =>
        checked.result = "False"

\* the signatures can be matched to distinct keys, each signature to the key
\* that made it, with the matches in the order of the keys
OrderedMatch(signers, keys) ==
    \E f \in [1..Len(signers) -> 1..Len(keys)] :
        /\ \A i \in 1..Len(signers) : keys[f[i]] = signers[i]
        /\ \A i, j \in 1..Len(signers) : i < j => f[i] < f[j]

\* verify_script has run the signatures of case a against the keys of case b
MultisigRun(a, b) ==
    /\ ScriptDone
    /\ Len(a.signers) = Len(b.signers)
    /\ checked.script_sig = MultisigScriptSig(a)
    /\ checked.script_pubkey = MultisigScriptPubKey(b)
    /\ checked.input_index = 0

\* C37: OP_CHECKMULTISIG pushes true exactly when the signatures can be
\* matched to distinct keys in the order of the keys.
C37_MultisigMatchesInOrder ==
    \A a, b \in MultisigCases :
        MultisigRun(a, b) =>
            (checked.stack = <<PyInt(1)>> <=> OrderedMatch(a.signers, b.keys))

\* signature_hash was called for an input of the transaction with a
\* supported hash type
SighashDone ==
    /\ checked.kind = "sighash"
    /\ checked.result # "pending"
    /\ checked.input_index < Len(checked.tx.vin)
    /\ (checked.sighash_type % 32) \in {SIGHASH_ALL, SIGHASH_NONE, SIGHASH_SINGLE}

\* the position of the signed input among the inputs of the copy
SignedAt ==
    IF checked.sighash_type >= SIGHASH_ANYONECANPAY THEN 1 ELSE checked.input_index + 1

\* C38: the copy that signature_hash hashes carries script_code on the input
\* being signed and an empty script on every other input it keeps.
C38_SignedInputCarriesScriptCode ==
    SighashDone =>
        /\ checked.result = "none"
        /\ \A k \in 1..Len(checked.vin) :
               checked.vin[k].scriptSig =
                   IF k = SignedAt THEN checked.script_pubkey ELSE EmptyScript

\* the length the claim gives to the encoding of a value that is not
\* negative: 1 below 0xFD, 3 up to 0xFFFF, 5 up to 0xFFFFFFFF, otherwise 9
EncodedLength(value) ==
    IF value.limbs[4] # 0 \/ value.limbs[3] # 0 THEN 9
    ELSE IF value.limbs[2] # 0 THEN 5
    ELSE IF value.limbs[1] >= 253 THEN 3
    ELSE 1

CompactDone == checked.kind = "compact" /\ checked.result # "pending"

\* C39: an integer of 0..2^64-1 is read back from its encoding, whose length
\* is the one of the range of the integer; a negative integer is an error,
\* and so is a stream that ends before the encoding is complete.
C39_CompactSizeRoundTrip ==
    CompactDone =>
        IF checked.cut = -1
        THEN IF checked.value.neg
             THEN checked.result = "ValueError"
             ELSE /\ checked.result = "none"
                  /\ checked.decoded = checked.value
                  /\ Len(checked.bytes) = EncodedLength(checked.value)
        ELSE checked.cut < EncodedLength(checked.value) => checked.result = "ValueError"

\* an integer above 0xFFFFFFFF has been encoded in 9 bytes and read back
C39_Witness ==
    /\ CompactDone
    /\ checked.cut = -1
    /\ checked.value.limbs[4] = 65535
    /\ Len(checked.bytes) = 9
    /\ checked.decoded = checked.value

\* the first four bytes of a 5-byte encoding have been refused
C39_CutWitness ==
    /\ CompactDone
    /\ checked.cut = 4
    /\ EncodedLength(checked.value) = 5
    /\ checked.result = "ValueError"

BitsDone == checked.kind = "bits" /\ checked.result = "done"

\* C40: a compact value that get_compact has returned for a target is
\* returned again by get_compact for the target set_compact gives it.
C40_CompactRoundTrip == BitsDone => checked.again = checked.bits

\* a target of 32 bytes whose highest byte has its high bit set: the
\* coefficient was shifted down and the size is 33
C40_Witness ==
    /\ BitsDone
    /\ Len(checked.target) = 32
    /\ checked.target[32] >= 128
    /\ checked.bits \div 2^24 = 33
    /\ checked.back # <<>>

====
